---- MODULE Spec2Model ----
(***************************************************************************)
(* Model of the amalie-engine quiz session engine: the GameMachine phase   *)
(* state machine, the AnswerTracker, the scoring engine, the power-up      *)
(* manager, the message builders and the useQuizHost / useQuizPlayer hooks *)
(* that tie them to the realtime channel.                                  *)
(*                                                                         *)
(* Objects are records, JS Maps are functions whose DOMAIN is the key set, *)
(* arrays are sequences, and a nullable / optional value is a sequence of  *)
(* length 0 (null, undefined) or 1 (present).  Times are milliseconds.     *)
(***************************************************************************)
EXTENDS Integers, Sequences, FiniteSets, TLC

VARIABLES
  state,        \* GameMachine.state (gameState fields flattened into it)
  tracker,      \* AnswerTracker: questionStartTime, answers, answerOrder
  config,       \* QuizGameConfig handed to the host hook
  playerStates, \* PowerupManager.playerStates
  hook,         \* React state of useQuizHost: gameState, allPlayersAnswered
  pending,      \* host callbacks not yet run: deferred reveals, startGame's continuation
  now,          \* Date.now(), in ms
  toHost,       \* player -> host messages in flight on the channel
  sent,         \* what the last host step handed to the adapter: target, message
  client,       \* React state of each useQuizPlayer
  storage,      \* localStorage of each player's browser
  call          \* the last direct API call of a driver and what it returned

hostVars == <<state, tracker, config, playerStates, hook, pending>>

netVars == <<toHost, sent>>

clientVars == <<client, storage>>

vars == <<state, tracker, config, playerStates, hook, pending, now, toHost, sent,
          client, storage, call>>

(***************************************************************************)
(* Bounds                                                                  *)
(***************************************************************************)
MaxScore == 100

\* The clock runs from 0 to MaxTime ms and is read at whole seconds.
MaxTime == 2000

Instants == {t \in 0..MaxTime : t % 1000 = 0}

PlayerIds == {"p1", "p2"}

\* Score deltas a host passes to adjustScore.
AdjustDeltas == {0 - 100, 100}

(***************************************************************************)
(* Generic helpers                                                         *)
(***************************************************************************)
Null == <<>>

Some(x) == <<x>>

EmptyMap == <<>>

\* Map.set
Put(f, k, v) == [x \in (DOMAIN f) \cup {k} |-> IF x = k THEN v ELSE f[x]]

\* Map.delete
Delete(f, k) == [x \in (DOMAIN f) \ {k} |-> f[x]]

\* array[i] with the 0-based index of the source
At(arr, i) == arr[i + 1]

\* array.filter(x => x !== k)
Without(arr, k) == SelectSeq(arr, LAMBDA x : x # k)

\* Math.round(num / den) for den > 0: the nearest integer, halves rounded up
Round(num, den) == (2 * num + den) \div (2 * den)

Min(a, b) == IF a <= b THEN a ELSE b

(***************************************************************************)
(* Question catalogue.  A Question is a function from the field names it   *)
(* carries to their values; optional fields are simply absent.             *)
(***************************************************************************)
Q1 == [id |-> "q1", category |-> "geo", text |-> "t1", answerType |-> "multiple-choice",
       correctOptionIndex |-> 0]

Q2 == [id |-> "q2", category |-> "geo", text |-> "t2", answerType |-> "multiple-choice",
       correctOptionIndex |-> 1]

Q3 == [id |-> "q3", category |-> "year", text |-> "t3", answerType |-> "numeric",
       correctNumber |-> 1]

AllQuestions == <<Q1, Q2, Q3>>

\* Question lists a caller hands to GameMachine.startGame.
QuestionLists == {<<>>, <<Q1>>, <<Q1, Q2>>}

NameOf(id) == id

(***************************************************************************)
(* game-state helpers                                                      *)
(***************************************************************************)
createInitialPowerupState == [available |-> <<>>, active |-> Null, used |-> <<>>]

createPlayer(id, name) ==
  [id |-> id, name |-> name, score |-> 0, streak |-> 0, isConnected |-> TRUE,
   powerups |-> createInitialPowerupState]

createCurrentQuestionState(question, questionIndex, totalQuestions, t) ==
  [question |-> question, questionIndex |-> questionIndex,
   totalQuestions |-> totalQuestions, startedAt |-> t, answers |-> EmptyMap]

isValidPhaseTransition(from, to) ==
  \/ from = "lobby" /\ to \in {"playing"}
  \/ from = "playing" /\ to \in {"revealing", "finished"}
  \/ from = "revealing" /\ to \in {"playing", "finished"}
  \/ from = "finished" /\ to \in {"lobby"}

\* A reset that keeps the scores.
resetForRematchKeepScore(s) ==
  [s EXCEPT !.phase = "lobby",
            !.players = [id \in DOMAIN s.players |->
                           [s.players[id] EXCEPT !.streak = 0,
                                                 !.powerups = createInitialPowerupState]],
            !.currentQuestion = Null,
            !.questionHistory = <<>>]

resetForRematch(s) ==
  [s EXCEPT !.phase = "lobby",
            !.players = [id \in DOMAIN s.players |->
                           [s.players[id] EXCEPT !.score = 0, !.streak = 0,
                                                 !.powerups = createInitialPowerupState]],
            !.currentQuestion = Null,
            !.questionHistory = <<>>]

(***************************************************************************)
(* GameMachine.  Every method is an operator from the machine state (and   *)
(* its arguments) to the machine state after the call.                     *)
(***************************************************************************)
\* players is the Map's key -> value part, playerOrder its insertion order.
GameMachineInit ==
  [phase |-> "lobby", players |-> EmptyMap, playerOrder |-> <<>>,
   currentQuestion |-> Null, questionHistory |-> <<>>, questions |-> <<>>,
   currentQuestionIndex |-> 0 - 1]

transitionTo(s, phase) ==
  IF ~isValidPhaseTransition(s.phase, phase) THEN s
  ELSE [s EXCEPT !.phase = phase]

\* An addPlayer that lets a new id in whatever the phase.
addPlayerAnyPhase(s, playerId, playerName) ==
  IF s.phase # "lobby" /\ playerId \in DOMAIN s.players
  THEN [s EXCEPT !.players[playerId].isConnected = TRUE]
  ELSE [s EXCEPT !.players = Put(s.players, playerId, createPlayer(playerId, playerName)),
                 !.playerOrder = IF playerId \in DOMAIN s.players THEN s.playerOrder
                                 ELSE Append(s.playerOrder, playerId)]

addPlayer(s, playerId, playerName) ==
  IF s.phase # "lobby"
  THEN IF playerId \in DOMAIN s.players
       THEN [s EXCEPT !.players[playerId].isConnected = TRUE]
       ELSE s
  ELSE [s EXCEPT !.players = Put(s.players, playerId, createPlayer(playerId, playerName)),
                 !.playerOrder = IF playerId \in DOMAIN s.players THEN s.playerOrder
                                 ELSE Append(s.playerOrder, playerId)]

\* addPlayer returns null exactly for a new id outside lobby.
addPlayerReturnsPlayer(s, playerId) ==
  s.phase = "lobby" \/ playerId \in DOMAIN s.players

removePlayer(s, playerId) ==
  IF playerId \in DOMAIN s.players
  THEN [s EXCEPT !.players[playerId].isConnected = FALSE]
  ELSE s

kickPlayer(s, playerId) ==
  [s EXCEPT !.players = Delete(s.players, playerId),
            !.playerOrder = Without(s.playerOrder, playerId)]

\* A startGame check that does not ask for a player.
startGameOkNoPlayers(s, questions) ==
  /\ s.phase = "lobby"
  /\ Len(questions) # 0

startGameOk(s, questions) ==
  /\ s.phase = "lobby"
  /\ Len(questions) # 0
  /\ Cardinality(DOMAIN s.players) # 0

startGame(s, questions) ==
  IF ~startGameOk(s, questions) THEN s
  ELSE transitionTo([s EXCEPT !.questions = questions,
                              !.currentQuestionIndex = 0 - 1], "playing")

\* A nextQuestion check that does not look at the phase.
nextQuestionOkAnyPhase(s) ==
  s.currentQuestionIndex + 1 < Len(s.questions)

nextQuestionOk(s) ==
  /\ s.phase \in {"playing", "revealing"}
  /\ s.currentQuestionIndex + 1 < Len(s.questions)

\* A nextQuestion that leaves the phase as it finds it.
nextQuestionKeepPhase(s, t) ==
  IF ~nextQuestionOk(s) THEN s
  ELSE LET nextIndex == s.currentQuestionIndex + 1
       IN [s EXCEPT !.currentQuestionIndex = nextIndex,
                    !.currentQuestion =
                       Some(createCurrentQuestionState(At(s.questions, nextIndex), nextIndex,
                                                       Len(s.questions), t))]

nextQuestion(s, t) ==
  IF ~nextQuestionOk(s) THEN s
  ELSE LET nextIndex == s.currentQuestionIndex + 1
       IN [s EXCEPT !.phase = "playing",
                    !.currentQuestionIndex = nextIndex,
                    !.currentQuestion =
                       Some(createCurrentQuestionState(At(s.questions, nextIndex), nextIndex,
                                                       Len(s.questions), t))]

recordAnswer(s, answer) ==
  IF s.currentQuestion = Null THEN s
  ELSE [s EXCEPT !.currentQuestion[1].answers =
                    Put(s.currentQuestion[1].answers, answer.playerId, answer)]

revealAnswer(s) ==
  IF s.phase # "playing" THEN s
  ELSE transitionTo(
         IF s.currentQuestion # Null
         THEN [s EXCEPT !.questionHistory = Append(s.questionHistory,
                                                   s.currentQuestion[1].question)]
         ELSE s,
         "revealing")

updatePlayerScore(s, playerId, score, streak) ==
  IF playerId \in DOMAIN s.players
  THEN [s EXCEPT !.players[playerId].score = score, !.players[playerId].streak = streak]
  ELSE s

adjustScore(s, playerId, points) ==
  IF playerId \in DOMAIN s.players
  THEN [s EXCEPT !.players[playerId].score = s.players[playerId].score + points]
  ELSE s

endGame(s) == [s EXCEPT !.phase = "finished"]

rematch(s) == [resetForRematch(s) EXCEPT !.currentQuestionIndex = 0 - 1]

replaceQuestion(s, newQuestion, t) ==
  IF s.currentQuestion = Null THEN s
  ELSE LET index == s.currentQuestionIndex
           qs == [s.questions EXCEPT ![index + 1] = newQuestion]
       IN [s EXCEPT !.questions = qs,
                    !.currentQuestion =
                       Some(createCurrentQuestionState(newQuestion, index, Len(qs), t))]


getScoreboardAnswers(s) ==
  IF s.currentQuestion = Null THEN EmptyMap ELSE s.currentQuestion[1].answers

(***************************************************************************)
(* calculateScoreboard: one entry per player in Map order, sorted by       *)
(* descending score with Array.prototype.sort (stable), then ranked.       *)
(***************************************************************************)
RECURSIVE InsertByScore(_, _)
InsertByScore(sorted, e) ==
  IF sorted = <<>> THEN <<e>>
  ELSE IF Head(sorted).score >= e.score
       THEN <<Head(sorted)>> \o InsertByScore(Tail(sorted), e)
       ELSE <<e>> \o sorted

RECURSIVE SortByScore(_)
SortByScore(entries) ==
  IF entries = <<>> THEN <<>>
  ELSE InsertByScore(SortByScore(SubSeq(entries, 1, Len(entries) - 1)),
                     entries[Len(entries)])

RECURSIVE RankAt(_, _)
RankAt(entries, i) ==
  IF i = 1 THEN 1
  ELSE IF entries[i].score < entries[i - 1].score THEN i
       ELSE RankAt(entries, i - 1)

\* A scoreboard that ranks by position, ties or not.
calculateScoreboardByPosition(players, playerOrder, currentAnswers) ==
  LET entry(id) ==
        [playerId |-> id, playerName |-> players[id].name, score |-> players[id].score,
         rank |-> 0, streak |-> players[id].streak,
         lastAnswerCorrect |-> IF id \in DOMAIN currentAnswers
                               THEN currentAnswers[id].isCorrect ELSE Null,
         pointsThisRound |-> IF id \in DOMAIN currentAnswers
                             THEN currentAnswers[id].pointsAwarded ELSE Null]
      sorted == SortByScore([i \in 1..Len(playerOrder) |-> entry(playerOrder[i])])
  IN [i \in 1..Len(sorted) |-> [sorted[i] EXCEPT !.rank = i]]

calculateScoreboard(players, playerOrder, currentAnswers) ==
  LET entry(id) ==
        [playerId |-> id, playerName |-> players[id].name, score |-> players[id].score,
         rank |-> 0, streak |-> players[id].streak,
         lastAnswerCorrect |-> IF id \in DOMAIN currentAnswers
                               THEN currentAnswers[id].isCorrect ELSE Null,
         pointsThisRound |-> IF id \in DOMAIN currentAnswers
                             THEN currentAnswers[id].pointsAwarded ELSE Null]
      sorted == SortByScore([i \in 1..Len(playerOrder) |-> entry(playerOrder[i])])
  IN [i \in 1..Len(sorted) |-> [sorted[i] EXCEPT !.rank = RankAt(sorted, i)]]

getScoreboard(s) == calculateScoreboard(s.players, s.playerOrder, getScoreboardAnswers(s))

allPlayersAnswered(players, answers) ==
  \A id \in DOMAIN players : players[id].isConnected => id \in DOMAIN answers

(***************************************************************************)
(* AnswerTracker.  cfg is its AnswerTrackerConfig; timeLimit 0 stands for  *)
(* an absent (undefined) limit, which the code tests by truthiness.        *)
(***************************************************************************)
AnswerTrackerInit == [questionStartTime |-> 0, answers |-> EmptyMap, answerOrder |-> <<>>]

createAnswerTracker(c) ==
  [allowLateAnswers |-> c.allowLateAnswers, timeLimit |-> c.questionTimeLimit]

\* A startQuestion that clears the answers and keeps the ordering list.
startQuestionKeepingOrder(t, startTime) ==
  [questionStartTime |-> startTime, answers |-> EmptyMap, answerOrder |-> t.answerOrder]

startQuestion(t, startTime) ==
  [questionStartTime |-> startTime, answers |-> EmptyMap, answerOrder |-> <<>>]

Rejected(reason) ==
  [accepted |-> FALSE, rejected |-> TRUE, rejectReason |-> Some(reason),
   playerAnswer |-> Null, answerOrder |-> Null]

\* A late check that forgets the allowLateAnswers switch.
isLateIgnoringAllow(cfg, answeredAt) ==
  /\ cfg.timeLimit # 0
  /\ answeredAt > cfg.timeLimit * 1000

\* The late check of submitAnswer.
isLate(cfg, answeredAt) ==
  /\ cfg.timeLimit # 0
  /\ ~cfg.allowLateAnswers
  /\ answeredAt > cfg.timeLimit * 1000

\* A submitAnswer without the already-answered check.
submitAnswerAgain(t, cfg, submission) ==
  LET answeredAt == submission.submittedAt - t.questionStartTime IN
  IF isLate(cfg, answeredAt)
  THEN [tracker |-> t, result |-> Rejected("late")]
  ELSE LET order == Append(t.answerOrder, submission.playerId)
           playerAnswer == [playerId |-> submission.playerId,
                            questionId |-> submission.questionId,
                            answer |-> submission.answer,
                            timestamp |-> submission.submittedAt,
                            answeredAt |-> answeredAt,
                            isCorrect |-> Null, pointsAwarded |-> Null]
       IN [tracker |-> [t EXCEPT !.answerOrder = order,
                                 !.answers = Put(t.answers, submission.playerId, playerAnswer)],
           result |-> [accepted |-> TRUE, rejected |-> FALSE, rejectReason |-> Null,
                       playerAnswer |-> Some(playerAnswer),
                       answerOrder |-> Some(Len(order))]]

\* submitAnswer: the tracker after the call and the AnswerResult returned.
submitAnswer(t, cfg, submission) ==
  LET answeredAt == submission.submittedAt - t.questionStartTime IN
  IF submission.playerId \in DOMAIN t.answers
  THEN [tracker |-> t, result |-> Rejected("already-answered")]
  ELSE IF isLate(cfg, answeredAt)
  THEN [tracker |-> t, result |-> Rejected("late")]
  ELSE LET order == Append(t.answerOrder, submission.playerId)
           playerAnswer == [playerId |-> submission.playerId,
                            questionId |-> submission.questionId,
                            answer |-> submission.answer,
                            timestamp |-> submission.submittedAt,
                            answeredAt |-> answeredAt,
                            isCorrect |-> Null, pointsAwarded |-> Null]
       IN [tracker |-> [t EXCEPT !.answerOrder = order,
                                 !.answers = Put(t.answers, submission.playerId, playerAnswer)],
           result |-> [accepted |-> TRUE, rejected |-> FALSE, rejectReason |-> Null,
                       playerAnswer |-> Some(playerAnswer),
                       answerOrder |-> Some(Len(order))]]

getAnswersInOrder(t) ==
  LET known == SelectSeq(t.answerOrder, LAMBDA id : id \in DOMAIN t.answers)
  IN [i \in 1..Len(known) |-> t.answers[known[i]]]

hasAnswered(t, playerId) == playerId \in DOMAIN t.answers

getAnswerPosition(t, playerId) ==
  IF \E i \in 1..Len(t.answerOrder) : t.answerOrder[i] = playerId
  THEN CHOOSE i \in 1..Len(t.answerOrder) :
         /\ t.answerOrder[i] = playerId
         /\ \A j \in 1..(i - 1) : t.answerOrder[j] # playerId
  ELSE 0 - 1

getAnswerCount(t) == Cardinality(DOMAIN t.answers)

isTimeExpired(t, cfg, time) ==
  IF cfg.timeLimit = 0 THEN FALSE
  ELSE time - t.questionStartTime >= cfg.timeLimit * 1000

updateAnswer(t, playerId, isCorrect, pointsAwarded) ==
  IF playerId \in DOMAIN t.answers
  THEN [t EXCEPT !.answers[playerId].isCorrect = Some(isCorrect),
                 !.answers[playerId].pointsAwarded = Some(pointsAwarded)]
  ELSE t

(***************************************************************************)
(* validateAnswer for the answer kinds of the catalogue (multiple-choice   *)
(* and numeric); submitted values are numbers.                             *)
(***************************************************************************)
validateMultipleChoiceAnswer(answer, question) ==
  IF "correctOptionIndex" \notin DOMAIN question THEN FALSE
  ELSE answer = question.correctOptionIndex

validateNumericAnswer(answer, question) ==
  IF "correctNumber" \notin DOMAIN question THEN FALSE
  ELSE answer = question.correctNumber

validateAnswer(answer, question) ==
  CASE question.answerType = "multiple-choice" -> validateMultipleChoiceAnswer(answer, question)
    [] question.answerType = "numeric" -> validateNumericAnswer(answer, question)
    [] OTHER -> FALSE

(***************************************************************************)
(* Scoring.  The engine runs with the defaults of createScoringEngine.     *)
(* Multipliers are kept as integer numerators: the streak multiplier over  *)
(* 10, the difficulty multiplier over 2.                                   *)
(***************************************************************************)
BasePoints == 100

MaxBonus == 50

DecayPerSecond == 5

\* multiplierPerStreak 0.1, maxMultiplier 2, as tenths
MaxStreakTenths == 10

\* A time bonus that goes on decaying past the time limit.
calculateTimeBonusPastLimit(answeredAtMs, timeLimitSeconds) ==
  LET bonusTimes1000 == MaxBonus * 1000 - answeredAtMs * DecayPerSecond
  IN IF bonusTimes1000 <= 0 THEN 0 ELSE Round(bonusTimes1000, 1000)

calculateTimeBonus(answeredAtMs, timeLimitSeconds) ==
  IF answeredAtMs >= timeLimitSeconds * 1000 THEN 0
  ELSE LET bonusTimes1000 == MaxBonus * 1000 - answeredAtMs * DecayPerSecond
       IN IF bonusTimes1000 <= 0 THEN 0 ELSE Round(bonusTimes1000, 1000)

calculateStreakMultiplier(currentStreak) == 10 + Min(currentStreak, MaxStreakTenths)

getDifficultyMultiplier(question) ==
  IF "difficulty" \notin DOMAIN question THEN 2
  ELSE CASE question.difficulty = "easy" -> 2
         [] question.difficulty = "medium" -> 3
         [] question.difficulty = "hard" -> 4
         [] OTHER -> 2

\* ScoringEngine.calculateScore(...).totalPoints
calculateScore(question, answer, isCorrect, currentStreak, timeLimit) ==
  IF ~isCorrect THEN 0
  ELSE LET basePoints == IF "points" \in DOMAIN question THEN question.points
                         ELSE BasePoints
           timeBonus == IF timeLimit # 0
                        THEN calculateTimeBonus(answer.answeredAt, timeLimit) ELSE 0
       IN Round((basePoints + timeBonus) * calculateStreakMultiplier(currentStreak)
                  * getDifficultyMultiplier(question), 20)

(***************************************************************************)
(* Power-ups                                                               *)
(***************************************************************************)
DOUBLE_POINTS == [id |-> "double-points", effect |-> "double-points", value |-> Some(2)]

EXTRA_TIME == [id |-> "extra-time", effect |-> "extra-time", value |-> Some(10)]

SHIELD == [id |-> "shield", effect |-> "shield", value |-> Null]

createPowerupState(availablePowerups) ==
  [available |-> availablePowerups, active |-> Null, used |-> <<>>]

grantPowerup(ps, powerup) ==
  [ps EXCEPT !.available = Append(ps.available, powerup)]

\* An activatePowerup that does not look at the active power-up.
activatePowerupOverActive(ps, powerupId) ==
  LET found == {i \in 1..Len(ps.available) : ps.available[i].id = powerupId} IN
  IF found = {} THEN Null
  ELSE LET powerupIndex == CHOOSE i \in found : \A j \in found : i <= j
       IN Some([available |-> [k \in 1..(Len(ps.available) - 1) |->
                                 IF k < powerupIndex THEN ps.available[k]
                                 ELSE ps.available[k + 1]],
                active |-> Some(ps.available[powerupIndex]),
                used |-> ps.used])

\* activatePowerup: Null when it fails, else the new state.
activatePowerup(ps, powerupId) ==
  LET found == {i \in 1..Len(ps.available) : ps.available[i].id = powerupId} IN
  IF found = {} THEN Null
  ELSE IF ps.active # Null THEN Null
  ELSE LET powerupIndex == CHOOSE i \in found : \A j \in found : i <= j
       IN Some([available |-> [k \in 1..(Len(ps.available) - 1) |->
                                 IF k < powerupIndex THEN ps.available[k]
                                 ELSE ps.available[k + 1]],
                active |-> Some(ps.available[powerupIndex]),
                used |-> ps.used])

consumeActivePowerup(ps) ==
  IF ps.active = Null THEN ps
  ELSE [available |-> ps.available, active |-> Null,
        used |-> Append(ps.used, ps.active[1].id)]

applyPowerupToScore(ps, baseScore) ==
  IF ps.active = Null THEN baseScore
  ELSE IF ps.active[1].effect = "double-points"
       THEN baseScore * (IF ps.active[1].value = Null THEN 2 ELSE ps.active[1].value[1])
       ELSE baseScore

\* A streak protection granted by any active power-up.
shouldProtectStreakAnyEffect(ps) == ps.active # Null

shouldProtectStreak(ps) == ps.active # Null /\ ps.active[1].effect = "shield"

getExtraTime(ps) ==
  IF ps.active # Null /\ ps.active[1].effect = "extra-time"
  THEN (IF ps.active[1].value = Null THEN 0 ELSE ps.active[1].value[1])
  ELSE 0

\* PowerupManager methods, on its playerStates map
initPlayer(pm, defaultPowerups, playerId) ==
  Put(pm, playerId, createPowerupState(defaultPowerups))

grantToPlayer(pm, playerId, powerup) ==
  IF playerId \notin DOMAIN pm THEN pm
  ELSE Put(pm, playerId, grantPowerup(pm[playerId], powerup))

\* the boolean activateForPlayer returns
activateForPlayerOk(pm, playerId, powerupId) ==
  playerId \in DOMAIN pm /\ activatePowerup(pm[playerId], powerupId) # Null

activateForPlayer(pm, playerId, powerupId) ==
  IF playerId \notin DOMAIN pm THEN pm
  ELSE IF activatePowerup(pm[playerId], powerupId) = Null THEN pm
  ELSE Put(pm, playerId, activatePowerup(pm[playerId], powerupId)[1])

consumeAllActive(pm) == [id \in DOMAIN pm |-> consumeActivePowerup(pm[id])]

resetPowerups(pm, defaultPowerups) ==
  [id \in DOMAIN pm |-> createPowerupState(defaultPowerups)]

removePowerupPlayer(pm, playerId) == Delete(pm, playerId)

(***************************************************************************)
(* Message builders                                                        *)
(***************************************************************************)
AnswerFields == {"correctOptionIndex", "correctText", "correctNumber", "acceptedAnswers"}

\* A stripping that forgets the alias list.
stripAnswerDataKeepingAliases(question) ==
  [f \in (DOMAIN question) \ {"correctOptionIndex", "correctText", "correctNumber"} |->
     question[f]]

stripAnswerData(question) ==
  [f \in (DOMAIN question) \ AnswerFields |-> question[f]]

createGameStartMessage(c, totalQuestions) ==
  [type |-> "game:start", payload |-> [config |-> c, totalQuestions |-> totalQuestions]]

createQuestionShowMessage(question, questionIndex, totalQuestions, timeLimit, t) ==
  [type |-> "question:show",
   payload |-> [question |-> stripAnswerData(question), questionIndex |-> questionIndex,
                totalQuestions |-> totalQuestions, timeLimit |-> timeLimit,
                startedAt |-> t]]

createQuestionReplacedMessage(question, questionIndex, totalQuestions, timeLimit, t) ==
  [type |-> "question:replaced",
   payload |-> [question |-> stripAnswerData(question), questionIndex |-> questionIndex,
                totalQuestions |-> totalQuestions, timeLimit |-> timeLimit,
                startedAt |-> t]]

createAnswerRevealMessage(question, answers, scoreboard) ==
  [type |-> "answer:reveal",
   payload |-> [question |-> question, answers |-> answers, scoreboard |-> scoreboard]]

createScoreboardUpdateMessage(scoreboard) ==
  [type |-> "scoreboard:update", payload |-> [scoreboard |-> scoreboard]]

createGameEndMessage(finalScoreboard, totalQuestions) ==
  [type |-> "game:end",
   payload |-> [finalScoreboard |-> finalScoreboard, totalQuestions |-> totalQuestions]]

createGameRematchMessage(previousResults) ==
  [type |-> "game:rematch", payload |-> [previousResults |-> previousResults]]

createPlayerJoinMessage(playerId, playerName) ==
  [type |-> "player:join", payload |-> [playerId |-> playerId, playerName |-> playerName]]

createPlayerRejoinMessage(playerId) ==
  [type |-> "player:rejoin", payload |-> [playerId |-> playerId]]

createPlayerAnswerMessage(answer) == [type |-> "player:answer", payload |-> answer]

createPlayerPowerupMessage(playerId, powerupId) ==
  [type |-> "player:powerup", payload |-> [playerId |-> playerId, powerupId |-> powerupId]]

createPlayerStateMessage(player, currentQuestion, gamePhase) ==
  [type |-> "player:state",
   payload |-> [player |-> player, currentQuestion |-> currentQuestion,
                gamePhase |-> gamePhase]]

createPlayerKickedMessage(playerId) ==
  [type |-> "player:kicked", payload |-> [playerId |-> playerId]]

createAnswerRejectedMessage(playerId, questionId, reason) ==
  [type |-> "answer:rejected",
   payload |-> [playerId |-> playerId, questionId |-> questionId, reason |-> reason]]

(***************************************************************************)
(* State right after construction of the host hook, before any client is   *)
(* opened.                                                                 *)
(***************************************************************************)
DefaultConfig ==
  [questionTimeLimit |-> 1, allowLateAnswers |-> FALSE,
   autoAdvanceOnAllAnswered |-> FALSE, powerups |-> <<>>, questionsPerGame |-> 2]

ClientInit ==
  [pc |-> "closed", gameState |-> "lobby", currentQuestion |-> Null,
   questionStartedAt |-> 0, hasAnswered |-> FALSE, answerRejected |-> FALSE,
   myScore |-> 0, myRank |-> 0]

\* one browser's localStorage: whether it works, and the identity kept for the room
StorageInit(available) == [available |-> available, identity |-> Null]

InitConstruction ==
  /\ state = GameMachineInit
  /\ tracker = AnswerTrackerInit
  /\ playerStates = EmptyMap
  /\ hook = [gameState |-> "lobby", allPlayersAnswered |-> FALSE]
  /\ pending = [reveal |-> 0, nextQuestion |-> 0]
  /\ now = 0
  /\ toHost = {}
  /\ sent = <<>>
  /\ client = [p \in PlayerIds |-> ClientInit]
  /\ call = [op |-> "none"]

\* the state after construction, every browser without localStorage
InitRoster ==
  /\ InitConstruction
  /\ config = DefaultConfig
  /\ storage = [p \in PlayerIds |-> StorageInit(FALSE)]

(***************************************************************************)
(* SpecMachine: a caller drives the GameMachine API directly, any method   *)
(* in any phase.                                                           *)
(***************************************************************************)
machineRest == <<tracker, config, playerStates, hook, pending, now, toHost, sent,
                 client, storage, call>>

\* one call of a GameMachine method: s1 is the machine after the call
MachineCall(s1) ==
  /\ state' = s1
  /\ UNCHANGED machineRest

MRematch == MachineCall(rematch(state))

SpecMachine ==
  InitRoster
  /\ [][\/ \E id \in PlayerIds : MachineCall(addPlayer(state, id, NameOf(id)))
        \/ \E id \in PlayerIds : MachineCall(removePlayer(state, id))
        \/ \E id \in PlayerIds : MachineCall(kickPlayer(state, id))
        \/ \E qs \in QuestionLists : MachineCall(startGame(state, qs))
        \/ MachineCall(nextQuestion(state, now))
        \/ \E id \in PlayerIds, v \in {0, 1} :
             MachineCall(recordAnswer(state,
                           [playerId |-> id,
                            questionId |-> IF state.currentQuestion = Null THEN "q1"
                                           ELSE state.currentQuestion[1].question.id,
                            answer |-> v, timestamp |-> now, answeredAt |-> 0,
                            isCorrect |-> Null, pointsAwarded |-> Null]))
        \/ MachineCall(revealAnswer(state))
        \/ \E id \in PlayerIds, d \in AdjustDeltas :
             /\ id \in DOMAIN state.players =>
                  /\ state.players[id].score + d <= MaxScore
                  /\ state.players[id].score + d >= 0 - MaxScore
             /\ MachineCall(adjustScore(state, id, d))
        \/ MachineCall(endGame(state))
        \/ MRematch
        \/ \E i \in 1..Len(AllQuestions) :
             MachineCall(replaceQuestion(state, AllQuestions[i], now))]_vars

(***************************************************************************)
(* SpecTracker: a caller drives one AnswerTracker directly, with any       *)
(* configuration and any submittedAt.                                      *)
(***************************************************************************)
trackerRest == <<state, config, playerStates, hook, pending, toHost, sent, client,
                 storage>>

InitTracker ==
  /\ InitConstruction
  /\ storage = [p \in PlayerIds |-> StorageInit(TRUE)]
  /\ \E l \in {0, 1}, a \in BOOLEAN :
       config = [DefaultConfig EXCEPT !.questionTimeLimit = l, !.allowLateAnswers = a]

TStartQuestion ==
  /\ tracker' = startQuestion(tracker, now)
  /\ call' = [op |-> "startQuestion"]
  /\ UNCHANGED <<now, trackerRest>>

TSubmitAnswer(id, v, at) ==
  LET submission == [playerId |-> id, questionId |-> "q1", answer |-> v,
                     submittedAt |-> at]
      r == submitAnswer(tracker, createAnswerTracker(config), submission)
  IN /\ tracker' = r.tracker
     /\ call' = [op |-> "submitAnswer", submission |-> submission, result |-> r.result]
     /\ UNCHANGED <<now, trackerRest>>

\* Date.now() is read at instants 2 s apart: one tick carries a round past a 1 s limit
ClockInstants == {t \in Instants : t % 2000 = 0}

Tick ==
  /\ \E t \in ClockInstants :
       /\ t > now
       /\ \A u \in ClockInstants : u > now => t <= u
       /\ now' = t
  /\ UNCHANGED <<hostVars, netVars, clientVars, call>>

SpecTracker ==
  InitTracker
  /\ [][\/ TStartQuestion
        \/ \E id \in PlayerIds, at \in Instants : TSubmitAnswer(id, 1, at)
        \/ Tick]_vars

(***************************************************************************)
(* SpecMessages: the question-carrying message builders applied to every   *)
(* question shape: each answer kind, each optional field present or not.   *)
(***************************************************************************)
PublicOptionalFields == {"difficulty", "timeLimit", "points"}

QuestionShapes ==
  LET FieldValue(f, kind, v) ==
        CASE f = "id" -> "q"
          [] f = "category" -> "c"
          [] f = "text" -> "t"
          [] f = "answerType" -> kind
          [] f = "difficulty" -> "hard"
          [] f = "timeLimit" -> 2
          [] f = "points" -> 200
          [] f = "correctOptionIndex" -> v
          [] f = "correctText" -> IF v = 0 THEN "a" ELSE "b"
          [] f = "correctNumber" -> v
          [] f = "acceptedAnswers" -> <<"x">>
  IN {[f \in {"id", "category", "text", "answerType"} \cup pub \cup sec |->
         FieldValue(f, kind, v)] :
        kind \in {"multiple-choice", "text", "numeric"},
        pub \in SUBSET PublicOptionalFields,
        sec \in SUBSET AnswerFields, v \in {0, 1}}

SpecMessages ==
  InitRoster
  /\ [][\/ \E q \in QuestionShapes :
             /\ call' = [op |-> "createQuestionShowMessage", question |-> q,
                         message |-> createQuestionShowMessage(q, 0, 1, 1, now)]
             /\ UNCHANGED <<hostVars, netVars, clientVars, now>>
        \/ \E q \in QuestionShapes :
             /\ call' = [op |-> "createQuestionReplacedMessage", question |-> q,
                         message |-> createQuestionReplacedMessage(q, 0, 1, 1, now)]
             /\ UNCHANGED <<hostVars, netVars, clientVars, now>>]_vars

(***************************************************************************)
(* Spec: the host hook (useQuizHost), the player hooks (useQuizPlayer) and *)
(* the channel between them.  A player message stays in flight (toHost)    *)
(* until the host's handler has run on it, and the channel may hand the    *)
(* same message over up to MaxDeliveries times.  A host message reaches    *)
(* every subscribed player's handler within the host step that sends it; a *)
(* direct message is dropped by every handler but its target's.            *)
(***************************************************************************)
MaxDeliveries == 2

MaxInFlight == 1

MaxPoints == 150

\* the question source given to useQuizHost
questionSource == <<Q1, Q2>>

AnswerValues == {0, 1}

\* the players that run a useQuizPlayer hook
Clients == {"p1"}

\* the host's engines and React state, with the messages a step hands to the adapter
HostOf ==
  [state |-> state, tracker |-> tracker, playerStates |-> playerStates, hook |-> hook,
   pending |-> pending, out |-> <<>>]

broadcast(h, message) ==
  [h EXCEPT !.out = Append(@, [target |-> Null, message |-> message])]

sendDirect(h, targetPlayerId, message) ==
  [h EXCEPT !.out = Append(@, [target |-> Some(targetPlayerId), message |-> message])]

\* the questions startGame hands to the machine: no category filter, no shuffle
gameQuestions ==
  IF config.questionsPerGame # 0
  THEN SubSeq(questionSource, 1, Min(config.questionsPerGame, Len(questionSource)))
  ELSE questionSource

questionTimeLimit(question) ==
  IF "timeLimit" \in DOMAIN question THEN question.timeLimit ELSE config.questionTimeLimit

\* useQuizHost.startGame up to its first await; nextQuestion() runs as a continuation
hostStartGame(h, questions) ==
  IF startGameOk(h.state, questions)
  THEN broadcast([h EXCEPT !.state = startGame(h.state, questions),
                           !.hook.gameState = "playing",
                           !.pending.nextQuestion = @ + 1],
                 createGameStartMessage(config, Len(questions)))
  ELSE h

hostEndGame(h) ==
  LET s1 == endGame(h.state)
  IN broadcast([h EXCEPT !.state = s1, !.hook.gameState = "finished"],
               createGameEndMessage(getScoreboard(s1), Len(s1.questions)))

\* A nextQuestion that returns without ending the game when no question is left.
hostNextQuestionNoEnd(h, t) ==
  IF ~nextQuestionOk(h.state) THEN h
  ELSE LET s1 == nextQuestion(h.state, t)
           current == s1.currentQuestion[1]
       IN broadcast([h EXCEPT !.state = s1,
                              !.tracker = startQuestion(h.tracker, t),
                              !.hook.allPlayersAnswered = FALSE],
                    createQuestionShowMessage(current.question, current.questionIndex,
                                              current.totalQuestions,
                                              questionTimeLimit(current.question), t))

hostNextQuestion(h, t) ==
  IF ~nextQuestionOk(h.state) THEN hostEndGame(h)
  ELSE LET s1 == nextQuestion(h.state, t)
           current == s1.currentQuestion[1]
       IN broadcast([h EXCEPT !.state = s1,
                              !.tracker = startQuestion(h.tracker, t),
                              !.hook.allPlayersAnswered = FALSE],
                    createQuestionShowMessage(current.question, current.questionIndex,
                                              current.totalQuestions,
                                              questionTimeLimit(current.question), t))

\* the questions replaceQuestion may draw from
replacementsAvailable(s) ==
  LET usedIds == {s.questionHistory[i].id : i \in 1..Len(s.questionHistory)}
                   \cup {s.currentQuestion[1].question.id}
  IN {i \in 1..Len(questionSource) : questionSource[i].id \notin usedIds}

hostReplaceQuestion(h, replacement, t) ==
  LET s1 == replaceQuestion(h.state, replacement, t)
      newCurrent == s1.currentQuestion[1]
  IN broadcast([h EXCEPT !.state = s1,
                         !.tracker = startQuestion(h.tracker, t),
                         !.hook.allPlayersAnswered = FALSE],
               createQuestionReplacedMessage(replacement, newCurrent.questionIndex,
                                             newCurrent.totalQuestions,
                                             questionTimeLimit(replacement), t))

performRevealAnswer(h) ==
  LET s1 == revealAnswer(h.state)
      h1 == [h EXCEPT !.state = s1, !.hook.gameState = "revealing",
                      !.hook.allPlayersAnswered = FALSE,
                      !.playerStates = consumeAllActive(h.playerStates)]
  IN IF s1.currentQuestion # Null
     THEN broadcast(h1, createAnswerRevealMessage(s1.currentQuestion[1].question,
                                                  getAnswersInOrder(h.tracker),
                                                  getScoreboard(s1)))
     ELSE h1

hostRematch(h) ==
  broadcast([h EXCEPT !.state = rematch(h.state),
                      !.playerStates = resetPowerups(h.playerStates, config.powerups),
                      !.hook.gameState = "lobby",
                      !.hook.allPlayersAnswered = FALSE],
            createGameRematchMessage(getScoreboard(h.state)))

hostKickPlayer(h, playerId) ==
  LET h1 == sendDirect(h, playerId, createPlayerKickedMessage(playerId))
  IN [h1 EXCEPT !.state = kickPlayer(h.state, playerId),
                !.playerStates = removePowerupPlayer(h.playerStates, playerId)]

hostAdjustScore(h, playerId, points) ==
  LET s1 == adjustScore(h.state, playerId, points)
  IN broadcast([h EXCEPT !.state = s1], createScoreboardUpdateMessage(getScoreboard(s1)))

\* handlePlayerMessage, case player:join
hostPlayerJoin(h, payload) ==
  IF addPlayerReturnsPlayer(h.state, payload.playerId)
  THEN [h EXCEPT !.state = addPlayer(h.state, payload.playerId, payload.playerName),
                 !.playerStates = initPlayer(h.playerStates, config.powerups,
                                             payload.playerId)]
  ELSE h

\* A rejoin that answers with the phase the hook shows instead of the
\* machine's phase.
hostPlayerRejoinHookPhase(h, payload) ==
  IF payload.playerId \in DOMAIN h.state.players
  THEN LET s1 == [h.state EXCEPT !.players[payload.playerId].isConnected = TRUE]
           current == IF s1.currentQuestion = Null THEN Null
                      ELSE Some([question |-> s1.currentQuestion[1].question,
                                 questionIndex |-> s1.currentQuestion[1].questionIndex,
                                 totalQuestions |-> s1.currentQuestion[1].totalQuestions,
                                 startedAt |-> s1.currentQuestion[1].startedAt])
       IN sendDirect([h EXCEPT !.state = s1], payload.playerId,
                     createPlayerStateMessage(s1.players[payload.playerId], current,
                                              h.hook.gameState))
  ELSE h

\* handlePlayerMessage, case player:rejoin.  The Map of recorded answers in the
\* CurrentQuestionState has no JSON form and is left out of the payload.
hostPlayerRejoin(h, payload) ==
  IF payload.playerId \in DOMAIN h.state.players
  THEN LET s1 == [h.state EXCEPT !.players[payload.playerId].isConnected = TRUE]
           current == IF s1.currentQuestion = Null THEN Null
                      ELSE Some([question |-> s1.currentQuestion[1].question,
                                 questionIndex |-> s1.currentQuestion[1].questionIndex,
                                 totalQuestions |-> s1.currentQuestion[1].totalQuestions,
                                 startedAt |-> s1.currentQuestion[1].startedAt])
       IN sendDirect([h EXCEPT !.state = s1], payload.playerId,
                     createPlayerStateMessage(s1.players[payload.playerId], current,
                                              s1.phase))
  ELSE h

\* handlePlayerMessage, case player:answer
hostPlayerAnswer(h, answer) ==
  LET r == submitAnswer(h.tracker, createAnswerTracker(config),
                        [playerId |-> answer.playerId, questionId |-> answer.questionId,
                         answer |-> answer.answer, submittedAt |-> answer.timestamp])
  IN IF r.result.rejected
     THEN sendDirect(h, answer.playerId,
                     createAnswerRejectedMessage(answer.playerId, answer.questionId,
                                                 r.result.rejectReason[1]))
     ELSE LET playerAnswer == r.result.playerAnswer[1]
              currentQ == h.state.currentQuestion
              scored == currentQ # Null /\ answer.playerId \in DOMAIN h.state.players
              player == h.state.players[answer.playerId]
              hasPowerups == answer.playerId \in DOMAIN h.playerStates
              powerupState == h.playerStates[answer.playerId]
              isCorrect == validateAnswer(playerAnswer.answer, currentQ[1].question)
              totalPoints == calculateScore(currentQ[1].question, playerAnswer, TRUE,
                                            player.streak, config.questionTimeLimit)
              pointsAwarded == IF ~isCorrect THEN 0
                               ELSE IF hasPowerups
                                    THEN applyPowerupToScore(powerupState, totalPoints)
                                    ELSE totalPoints
              newStreak == IF isCorrect THEN player.streak + 1
                           ELSE IF hasPowerups /\ shouldProtectStreak(powerupState)
                                THEN player.streak ELSE 0
              t1 == IF scored
                    THEN updateAnswer(r.tracker, answer.playerId, isCorrect, pointsAwarded)
                    ELSE r.tracker
              s1 == IF scored
                    THEN updatePlayerScore(h.state, answer.playerId,
                                           player.score + pointsAwarded, newStreak)
                    ELSE h.state
              allAnswered == \A id \in DOMAIN s1.players :
                               s1.players[id].isConnected => id \in DOMAIN t1.answers
          IN [h EXCEPT !.tracker = t1, !.state = s1,
                       !.hook.allPlayersAnswered = IF allAnswered THEN TRUE ELSE @,
                       !.pending.reveal =
                          IF allAnswered /\ config.autoAdvanceOnAllAnswered
                          THEN @ + 1 ELSE @]

\* handlePlayerMessage, case player:powerup
hostPlayerPowerup(h, payload) ==
  [h EXCEPT !.playerStates = activateForPlayer(h.playerStates, payload.playerId,
                                               payload.powerupId)]

handlePlayerMessage(h, message) ==
  CASE message.type = "player:join" -> hostPlayerJoin(h, message.payload)
    [] message.type = "player:rejoin" -> hostPlayerRejoin(h, message.payload)
    [] message.type = "player:answer" -> hostPlayerAnswer(h, message.payload)
    [] message.type = "player:powerup" -> hostPlayerPowerup(h, message.payload)
    [] OTHER -> h

(***************************************************************************)
(* The player side: identity storage and useQuizPlayer.                    *)
(***************************************************************************)
getStoredPlayerIdentity(st) == IF st.available THEN st.identity ELSE Null

storePlayerIdentity(st, identity) ==
  IF st.available THEN [st EXCEPT !.identity = Some(identity)] ELSE st

\* getOrCreatePlayerIdentity: the storage afterwards and the identity returned;
\* newId is the id generatePlayerId() would produce.
getOrCreatePlayerIdentity(st, newId, playerName) ==
  LET existing == getStoredPlayerIdentity(st) IN
  IF existing # Null
  THEN IF existing[1].playerName # playerName
       THEN LET updated == [existing[1] EXCEPT !.playerName = playerName]
            IN [storage |-> storePlayerIdentity(st, updated), identity |-> updated]
       ELSE [storage |-> st, identity |-> existing[1]]
  ELSE LET identity == [playerId |-> newId, playerName |-> playerName]
       IN [storage |-> storePlayerIdentity(st, identity), identity |-> identity]

\* the message connect() sends once subscribed
connectMessage(st, playerId, playerName) ==
  LET storedIdentity == getStoredPlayerIdentity(st) IN
  IF storedIdentity # Null /\ storedIdentity[1].playerId = playerId
  THEN createPlayerRejoinMessage(playerId)
  ELSE createPlayerJoinMessage(playerId, playerName)

updateMyScoreFromScoreboard(c, playerId, scoreboard) ==
  LET mine == {i \in 1..Len(scoreboard) : scoreboard[i].playerId = playerId} IN
  IF mine = {} THEN c
  ELSE LET myEntry == scoreboard[CHOOSE i \in mine : \A j \in mine : i <= j]
       IN [c EXCEPT !.myScore = myEntry.score, !.myRank = myEntry.rank]

\* useQuizPlayer.handleMessage for a message addressed to this player
handleMessage(c, playerId, message) ==
  LET payload == message.payload IN
  CASE message.type = "game:start" -> [c EXCEPT !.gameState = "playing"]
    [] message.type \in {"question:show", "question:replaced"} ->
         [c EXCEPT !.currentQuestion = Some(payload.question),
                   !.questionStartedAt = payload.startedAt,
                   !.hasAnswered = FALSE, !.answerRejected = FALSE,
                   !.gameState = "playing"]
    [] message.type = "answer:reveal" ->
         updateMyScoreFromScoreboard([c EXCEPT !.gameState = "revealing"], playerId,
                                     payload.scoreboard)
    [] message.type = "scoreboard:update" ->
         updateMyScoreFromScoreboard(c, playerId, payload.scoreboard)
    [] message.type = "game:end" ->
         updateMyScoreFromScoreboard([c EXCEPT !.gameState = "finished"], playerId,
                                     payload.finalScoreboard)
    [] message.type = "game:rematch" ->
         [c EXCEPT !.gameState = "lobby", !.myScore = 0, !.myRank = 0,
                   !.currentQuestion = Null, !.hasAnswered = FALSE,
                   !.answerRejected = FALSE]
    [] message.type = "player:state" ->
         LET c1 == [c EXCEPT !.myScore = payload.player.score, !.myRank = 0,
                             !.gameState = payload.gamePhase]
         IN IF payload.currentQuestion # Null
            THEN [c1 EXCEPT !.currentQuestion =
                               Some(stripAnswerData(payload.currentQuestion[1].question)),
                            !.questionStartedAt = payload.currentQuestion[1].startedAt]
            ELSE c1
    [] message.type = "player:kicked" -> [c EXCEPT !.pc = "kicked"]
    [] message.type = "answer:rejected" ->
         IF payload.playerId = playerId
         THEN [c EXCEPT !.answerRejected = TRUE, !.hasAnswered = FALSE]
         ELSE c
    [] OTHER -> c

\* every subscribed player's handleMessage runs on the messages of a host step
RECURSIVE Deliver(_, _)
Deliver(cl, out) ==
  IF out = <<>> THEN cl
  ELSE LET o == Head(out)
           handled == [p \in PlayerIds |->
                         IF cl[p].pc = "connected" /\ o.target \in {Null, Some(p)}
                         THEN handleMessage(cl[p], p, o.message) ELSE cl[p]]
       IN Deliver(handled, Tail(out))

(***************************************************************************)
(* Actions of Spec.  A host step is one callback of useQuizHost run to     *)
(* its end (or to its await).                                              *)
(***************************************************************************)
MaxPending == 1

Init ==
  /\ InitConstruction
  /\ config = DefaultConfig
  /\ \E a \in BOOLEAN : storage = [p \in PlayerIds |-> StorageInit(a)]

HostStep(h) ==
  /\ state' = h.state
  /\ tracker' = h.tracker
  /\ playerStates' = h.playerStates
  /\ hook' = h.hook
  /\ pending' = h.pending
  /\ client' = Deliver(client, h.out)
  /\ sent' = h.out
  /\ \A id \in DOMAIN h.state.players :
       /\ h.state.players[id].score <= MaxPoints
       /\ h.state.players[id].score >= 0 - MaxPoints
  /\ UNCHANGED <<config, now, storage, call>>

HostStartGame ==
  /\ pending.nextQuestion < MaxPending
  /\ HostStep(hostStartGame(HostOf, gameQuestions))
  /\ UNCHANGED toHost

\* the rest of startGame after its await: nextQuestion()
HostStartGameResume ==
  /\ pending.nextQuestion > 0
  /\ HostStep(hostNextQuestion([HostOf EXCEPT !.pending.nextQuestion = @ - 1], now))
  /\ UNCHANGED toHost

HostNextQuestion ==
  /\ HostStep(hostNextQuestion(HostOf, now))
  /\ UNCHANGED toHost

HostRevealAnswer ==
  /\ HostStep(performRevealAnswer(HostOf))
  /\ UNCHANGED toHost

\* the adapter hands a player message to handlePlayerMessage
HostReceive(x, again) ==
  /\ x \in toHost
  /\ again => x.deliveries + 1 < MaxDeliveries
  /\ HostStep(handlePlayerMessage(HostOf, x.message))
  /\ toHost' = IF again
               THEN (toHost \ {x}) \cup {[x EXCEPT !.deliveries = @ + 1]}
               ELSE toHost \ {x}

HostReceiveAny == \E x \in toHost, again \in BOOLEAN : HostReceive(x, again)

CanSend == Cardinality(toHost) < MaxInFlight

Send(message) == toHost \cup {[message |-> message, deliveries |-> 0]}

\* the player hook mounts: identity, subscription, join or rejoin
PlayerOpen(p) ==
  /\ CanSend
  /\ client[p].pc = "closed"
  /\ LET r == getOrCreatePlayerIdentity(storage[p], p, NameOf(p))
     IN /\ storage' = [storage EXCEPT ![p] = r.storage]
        /\ toHost' = Send(connectMessage(r.storage, r.identity.playerId, NameOf(p)))
  /\ client' = [client EXCEPT ![p].pc = "connected"]
  /\ sent' = <<>>
  /\ UNCHANGED <<hostVars, now, call>>

\* useQuizPlayer.reconnect
PlayerReconnect(p) ==
  /\ CanSend
  /\ client[p].pc \in {"connected", "kicked", "left"}
  /\ client' = [client EXCEPT ![p].pc = "connected"]
  /\ toHost' = Send(createPlayerRejoinMessage(p))
  /\ sent' = <<>>
  /\ UNCHANGED <<hostVars, storage, now, call>>

PlayerSubmitAnswer(p, v) ==
  /\ CanSend
  /\ client[p].pc = "connected"
  /\ client[p].currentQuestion # Null
  /\ ~client[p].hasAnswered
  /\ client' = [client EXCEPT ![p].hasAnswered = TRUE, ![p].answerRejected = FALSE]
  /\ toHost' = Send(createPlayerAnswerMessage(
                      [playerId |-> p, questionId |-> client[p].currentQuestion[1].id,
                       answer |-> v, timestamp |-> now,
                       answeredAt |-> now - client[p].questionStartedAt]))
  /\ sent' = <<>>
  /\ UNCHANGED <<hostVars, storage, now, call>>

Next ==
  \/ HostStartGame
  \/ HostStartGameResume
  \/ HostNextQuestion
  \/ HostRevealAnswer
  \/ HostReceiveAny
  \/ \E p \in Clients : PlayerOpen(p)
  \/ \E p \in Clients : PlayerReconnect(p)
  \/ \E p \in Clients, v \in AnswerValues : PlayerSubmitAnswer(p, v)
  \/ Tick

Spec == Init /\ [][Next]_vars

(***************************************************************************)
(* C1: every change of the room phase follows one of the six edges         *)
(* lobby->playing, playing->revealing, playing->finished,                  *)
(* revealing->playing, revealing->finished, finished->lobby, whatever      *)
(* GameMachine operation causes it (endGame and rematch included).         *)
(***************************************************************************)
ValidEdges ==
  {<<"lobby", "playing">>, <<"playing", "revealing">>, <<"playing", "finished">>,
   <<"revealing", "playing">>, <<"revealing", "finished">>, <<"finished", "lobby">>}

C1_PhaseEdges ==
  [][state'.phase # state.phase => <<state.phase, state'.phase>> \in ValidEdges]_vars

(***************************************************************************)
(* C2: a player who opens the player hook for the first time (no identity  *)
(* stored beforehand) while the host is in lobby is added to the host's    *)
(* player table: once the message sent on connecting has been handled and  *)
(* none is in flight, the GameMachine holds a Player with that id, score   *)
(* 0, streak 0, connected.                                                 *)
(***************************************************************************)
C2_FirstOpenAdded ==
  \A p \in Clients :
    ( /\ client[p].pc = "connected"
      /\ state.phase = "lobby"
      /\ \A x \in toHost : x.message.payload.playerId # p )
    => /\ p \in DOMAIN state.players
       /\ state.players[p].score = 0
       /\ state.players[p].streak = 0
       /\ state.players[p].isConnected

(***************************************************************************)
(* C3: within one round the tracker holds at most one answer per player:   *)
(* a player:answer handled for a player who already has an accepted answer *)
(* is answered with answer:rejected, reason already-answered, leaves the   *)
(* stored answers and the ordering list unchanged and changes no score or  *)
(* streak; the ordering list never names a player twice.                   *)
(***************************************************************************)
C3_OneAnswerPerRound ==
  [][ /\ \A x \in toHost, again \in BOOLEAN :
           ( /\ HostReceive(x, again)
             /\ x.message.type = "player:answer"
             /\ x.message.payload.playerId \in DOMAIN tracker.answers )
           => /\ tracker' = tracker
              /\ state'.players = state.players
              /\ sent' = <<[target |-> Some(x.message.payload.playerId),
                            message |-> createAnswerRejectedMessage(
                                          x.message.payload.playerId,
                                          x.message.payload.questionId,
                                          "already-answered")]>>
      /\ \A i, j \in 1..Len(tracker'.answerOrder) :
           tracker'.answerOrder[i] = tracker'.answerOrder[j] => i = j
      /\ {tracker'.answerOrder[i] : i \in 1..Len(tracker'.answerOrder)}
           = DOMAIN tracker'.answers ]_vars

C3_Witness ==
  /\ Len(sent) = 1
  /\ sent[1].message.type = "answer:rejected"
  /\ sent[1].message.payload.reason = "already-answered"
  /\ sent[1].message.payload.playerId \in DOMAIN tracker.answers
  /\ state.players[sent[1].message.payload.playerId].score > 0

(***************************************************************************)
(* C4: a player:answer whose questionId is not the id of the question of   *)
(* the open round is rejected by the host: the tracker is left unchanged   *)
(* and no score or streak changes.                                         *)
(***************************************************************************)
C4_StaleAnswerRejected ==
  [][ \A x \in toHost, again \in BOOLEAN :
        ( /\ HostReceive(x, again)
          /\ x.message.type = "player:answer"
          /\ state.phase = "playing"
          /\ state.currentQuestion # Null
          /\ x.message.payload.questionId # state.currentQuestion[1].question.id )
        => /\ tracker' = tracker
           /\ state'.players = state.players
           /\ Len(sent') = 1
           /\ sent'[1].message.type = "answer:rejected" ]_vars

(***************************************************************************)
(* C5: once revealAnswer has moved the room to revealing the round is      *)
(* closed: the revealed question is in the question history, and an answer *)
(* handled while the room is revealing is not added to the round's answers *)
(* and changes no score or streak.                                         *)
(***************************************************************************)
C5_ClosedAfterReveal ==
  [][ /\ \A x \in toHost, again \in BOOLEAN :
           ( /\ HostReceive(x, again)
             /\ x.message.type = "player:answer"
             /\ state.phase = "revealing" )
           => /\ tracker'.answers = tracker.answers
              /\ tracker'.answerOrder = tracker.answerOrder
              /\ state'.players = state.players
      /\ ( state'.phase = "revealing" /\ state'.currentQuestion # Null )
           => \E i \in 1..Len(state'.questionHistory) :
                state'.questionHistory[i] = state'.currentQuestion[1].question ]_vars

(***************************************************************************)
(* C6: with a time limit and late answers disallowed, whether an answer    *)
(* that reaches the late check is rejected as late depends on the time     *)
(* between the start of the round and the moment the host handles it: one  *)
(* handled after the deadline is rejected as late, and the outcome is the  *)
(* same whatever timestamp the payload carries.                            *)
(***************************************************************************)
C6_LateByHostClock ==
  [][ \A x \in toHost, again \in BOOLEAN :
        ( /\ HostReceive(x, again)
          /\ x.message.type = "player:answer"
          /\ x.message.payload.playerId \notin DOMAIN tracker.answers
          /\ config.questionTimeLimit # 0
          /\ ~config.allowLateAnswers )
        => LET p == x.message.payload.playerId
               storedWith(ts) ==
                 p \in DOMAIN handlePlayerMessage(
                                HostOf, [x.message EXCEPT !.payload.timestamp = ts]
                              ).tracker.answers
           IN /\ now - tracker.questionStartTime > config.questionTimeLimit * 1000
                   => /\ tracker' = tracker
                      /\ state'.players = state.players
                      /\ sent' = <<[target |-> Some(p),
                                    message |-> createAnswerRejectedMessage(
                                                  p, x.message.payload.questionId,
                                                  "late")]>>
              /\ \A ts \in Instants :
                   storedWith(ts) = storedWith(x.message.payload.timestamp) ]_vars

C8_AtLimitRejected ==
  [][\A id \in PlayerIds, at \in Instants :
       TSubmitAnswer(id, 1, at) =>
         LET cfg == createAnswerTracker(config)
             elapsed == at - tracker.questionStartTime
         IN ( /\ cfg.timeLimit # 0
              /\ ~cfg.allowLateAnswers )
              => /\ elapsed >= cfg.timeLimit * 1000
                      => /\ calculateTimeBonus(elapsed, cfg.timeLimit) = 0
                         /\ call'.result.rejected
                 /\ (at = now /\ isTimeExpired(tracker, cfg, now))
                      => ~call'.result.accepted]_vars

(***************************************************************************)
(* C9: among the messages the host sends to players, broadcast or direct,  *)
(* only answer:reveal contains a question with an answer-revealing field   *)
(* (correctOptionIndex, correctText, correctNumber, acceptedAnswers); the  *)
(* player:state sent on rejoin is included.                                *)
(***************************************************************************)
C9_OnlyRevealCarriesAnswers ==
  \A i \in 1..Len(sent) :
    LET message == sent[i].message
        questions ==
          IF message.type \in {"question:show", "question:replaced"}
          THEN {message.payload.question}
          ELSE IF message.type = "player:state" /\ message.payload.currentQuestion # Null
          THEN {message.payload.currentQuestion[1].question}
          ELSE {}
    IN message.type # "answer:reveal"
         => \A q \in questions : (DOMAIN q) \cap AnswerFields = {}

(***************************************************************************)
(* C10: the question placed in a question:show or question:replaced        *)
(* payload has none of correctOptionIndex, correctText, correctNumber,     *)
(* acceptedAnswers, keeps every other field of the question unchanged, and *)
(* is the same for any two questions that differ only in those four.       *)
(***************************************************************************)
C10_StrippedQuestion ==
  call.op \in {"createQuestionShowMessage", "createQuestionReplacedMessage"} =>
    LET q == call.question
        pq == call.message.payload.question
    IN /\ (DOMAIN pq) \cap AnswerFields = {}
       /\ \A f \in (DOMAIN q) \ AnswerFields : f \in DOMAIN pq /\ pq[f] = q[f]
       /\ DOMAIN pq \subseteq DOMAIN q
       /\ \A q2 \in QuestionShapes :
            ( /\ (DOMAIN q2) \ AnswerFields = (DOMAIN q) \ AnswerFields
              /\ \A f \in (DOMAIN q) \ AnswerFields : q2[f] = q[f] )
            => /\ createQuestionShowMessage(q2, 0, 1, 1, now).payload.question = pq
               /\ createQuestionReplacedMessage(q2, 0, 1, 1, now).payload.question = pq

C10_Witness ==
  /\ call.op = "createQuestionReplacedMessage"
  /\ AnswerFields \subseteq DOMAIN call.question
  /\ PublicOptionalFields \subseteq DOMAIN call.question

(***************************************************************************)
(* SpecRoster: the room with the host's kickPlayer and a player's leaving  *)
(* the channel.  The clock stays at 0 and every browser is without         *)
(* localStorage, so the first message of a player is player:join.          *)
(***************************************************************************)
\* PresenceManager.handleLeave on the host: the presence is dropped from the
\* manager's own map and the leave callbacks run; useQuizHost registers none,
\* so what the hook holds stays as it is.
handleLeave(h, playerId) == h

HostKickPlayer(p) ==
  /\ HostStep(hostKickPlayer(HostOf, p))
  /\ UNCHANGED toHost

\* the player's adapter disconnects (unmount, or the first half of reconnect):
\* presence is untracked and the host's presence manager sees the leave
PlayerLeave(p) ==
  /\ client[p].pc = "connected"
  /\ client' = [client EXCEPT ![p].pc = "left"]
  /\ LET h == handleLeave(HostOf, p)
     IN /\ state' = h.state
        /\ tracker' = h.tracker
        /\ playerStates' = h.playerStates
        /\ hook' = h.hook
        /\ pending' = h.pending
        /\ sent' = h.out
  /\ UNCHANGED <<config, now, toHost, storage, call>>

SpecRoster ==
  InitRoster
  /\ [][\/ HostStartGame
        \/ HostStartGameResume
        \/ HostRevealAnswer
        \/ HostReceiveAny
        \/ \E p \in Clients : HostKickPlayer(p)
        \/ \E p \in Clients : PlayerOpen(p)
        \/ \E p \in Clients : PlayerLeave(p)
        \/ \E p \in Clients : PlayerReconnect(p)
        \/ \E p \in Clients, v \in AnswerValues : PlayerSubmitAnswer(p, v)]_vars

(***************************************************************************)
(* SpecSession: one game between a host and players who join, answer and   *)
(* reconnect, ended by the host's endGame; the clock stays at 0 and every  *)
(* browser is without localStorage.                                        *)
(***************************************************************************)
HostEndGame ==
  /\ HostStep(hostEndGame(HostOf))
  /\ UNCHANGED toHost

SpecSession ==
  InitRoster
  /\ [][\/ HostStartGame
        \/ HostStartGameResume
        \/ HostRevealAnswer
        \/ HostEndGame
        \/ HostReceiveAny
        \/ \E p \in Clients : PlayerOpen(p)
        \/ \E p \in Clients : PlayerReconnect(p)
        \/ \E p \in Clients, v \in AnswerValues : PlayerSubmitAnswer(p, v)]_vars

(***************************************************************************)
(* C11: once kickPlayer(id) has removed a player, a later player:answer,   *)
(* player:rejoin or player:powerup naming that id is ignored: the player   *)
(* stays out of the table, no answer is recorded for the id (so none is    *)
(* sent in answer:reveal), no power-up state is created or changed, and    *)
(* the all-players-answered flag is not affected.                          *)
(***************************************************************************)
C11_KickedIgnored ==
  [][\A x \in toHost, again \in BOOLEAN :
       ( /\ HostReceive(x, again)
         /\ x.message.type \in {"player:answer", "player:rejoin", "player:powerup"}
         /\ client[x.message.payload.playerId].pc = "kicked"
         /\ x.message.payload.playerId \notin DOMAIN state.players )
       => /\ x.message.payload.playerId \notin DOMAIN state'.players
          /\ x.message.payload.playerId \notin DOMAIN tracker'.answers
          /\ playerStates' = playerStates
          /\ hook'.allPlayersAnswered = hook.allPlayersAnswered]_vars

(***************************************************************************)
(* C15: when a joined player has left the channel, the host has marked the *)
(* player's connectivity flag false (the player and the score are kept),   *)
(* so that the player is not waited for by the all-players-answered check. *)
(***************************************************************************)
C15_LeaveMarksDisconnected ==
  \A p \in Clients :
    (client[p].pc = "left" /\ p \in DOMAIN state.players)
      => ~state.players[p].isConnected

(***************************************************************************)
(* C12: a player:rejoin naming a player of the table, handled in any       *)
(* phase, keeps the same Player record (score, streak and every other      *)
(* field unchanged, connectivity flag true), changes nothing else in the   *)
(* machine, and makes the host send exactly one message, a player:state    *)
(* directed to that player whose gamePhase is the machine's phase and      *)
(* whose player carries the current score.                                 *)
(***************************************************************************)
C12_RejoinKeepsRecord ==
  [][\A x \in toHost, again \in BOOLEAN :
       ( /\ HostReceive(x, again)
         /\ x.message.type = "player:rejoin"
         /\ x.message.payload.playerId \in DOMAIN state.players )
       => LET id == x.message.payload.playerId IN
          /\ state' = [state EXCEPT !.players[id].isConnected = TRUE]
          /\ tracker' = tracker
          /\ Len(sent') = 1
          /\ sent'[1].target = Some(id)
          /\ sent'[1].message.type = "player:state"
          /\ sent'[1].message.payload.gamePhase = state.phase
          /\ sent'[1].message.payload.player.id = id
          /\ sent'[1].message.payload.player.score = state.players[id].score
          /\ sent'[1].message.payload.player.streak = state.players[id].streak]_vars

C12_Witness ==
  /\ Len(sent) = 1
  /\ sent[1].message.type = "player:state"
  /\ state.phase = "revealing"
  /\ sent[1].message.payload.gamePhase = "revealing"
  /\ sent[1].message.payload.player.score > 0
  /\ state.players[sent[1].message.payload.player.id].isConnected

(***************************************************************************)
(* C13: when a connected player has processed the player:state the host    *)
(* sent on a rejoin, the player's myRank is the player's rank in the       *)
(* host's current scoreboard, and the power-ups the message hands over     *)
(* (available, active) are those the PowerupManager holds for the player.  *)
(***************************************************************************)
C13_StateReconciles ==
  [][\A x \in toHost, again \in BOOLEAN :
       ( /\ HostReceive(x, again)
         /\ x.message.type = "player:rejoin"
         /\ x.message.payload.playerId \in DOMAIN state.players
         /\ x.message.payload.playerId \in Clients
         /\ client[x.message.payload.playerId].pc = "connected" )
       => LET id == x.message.payload.playerId
              board == getScoreboard(state')
              powerups == sent'[1].message.payload.player.powerups
          IN /\ \A i \in 1..Len(board) :
                  board[i].playerId = id => client'[id].myRank = board[i].rank
             /\ client'[id].myScore = state'.players[id].score
             /\ id \in DOMAIN playerStates'
                  => /\ powerups.available = playerStates'[id].available
                     /\ powerups.active = playerStates'[id].active]_vars

(***************************************************************************)
(* C14: a host action (startGame, nextQuestion, revealAnswer, in whatever  *)
(* phase it is called) keeps every connected player's gameState equal to   *)
(* the GameMachine's phase: if they agreed before the action, they agree   *)
(* once the messages the action sent have been processed.                  *)
(***************************************************************************)
C14_PhaseAgreement ==
  [][\A p \in Clients :
       ( /\ client[p].pc = "connected"
         /\ client[p].gameState = state.phase
         /\ \/ HostStartGame
            \/ HostStartGameResume
            \/ HostNextQuestion
            \/ HostRevealAnswer )
       => client'[p].gameState = state'.phase]_vars

(***************************************************************************)
(* C16: in every state the GameMachine can reach, revealAnswer called when *)
(* the phase is not playing, startGame called when the phase is not lobby, *)
(* and nextQuestion called when the phase is lobby or finished each leave  *)
(* the machine as it is: phase, players, question list, current index,     *)
(* current Round and history are unchanged (startGame and nextQuestion     *)
(* report failure).                                                        *)
(***************************************************************************)
C16_IllegalCallsNoOp ==
  /\ state.phase # "playing" => revealAnswer(state) = state
  /\ state.phase # "lobby" =>
       \A qs \in QuestionLists : startGame(state, qs) = state /\ ~startGameOk(state, qs)
  /\ state.phase \in {"lobby", "finished"} =>
       \A t \in Instants : nextQuestion(state, t) = state /\ ~nextQuestionOk(state)

\* finished by endGame with a question still left, and a lobby that holds a
\* question list: the calls would have something to do
C16_Witness ==
  /\ state.phase = "finished"
  /\ state.currentQuestion # Null
  /\ state.currentQuestionIndex + 1 < Len(state.questions)
  /\ DOMAIN state.players # {}

(***************************************************************************)
(* C17: startGame succeeds exactly when the phase is lobby, at least one   *)
(* player is in the table and the question list is not empty; on success   *)
(* the phase is playing, the list is the one given, the current index is   *)
(* -1 and no Round is open; otherwise nothing changes.                     *)
(***************************************************************************)
C17_StartGame ==
  \A qs \in QuestionLists :
    LET ok == state.phase = "lobby" /\ DOMAIN state.players # {} /\ qs # <<>>
        after == startGame(state, qs)
    IN /\ startGameOk(state, qs) <=> ok
       /\ ok => /\ after.phase = "playing"
                /\ after.questions = qs
                /\ after.currentQuestionIndex = 0 - 1
                /\ after.currentQuestion = Null
                /\ after.players = state.players
       /\ ~ok => after = state

\* right after a successful startGame that followed a rematch
C17_Witness ==
  /\ state.phase = "playing"
  /\ state.currentQuestionIndex = 0 - 1
  /\ state.currentQuestion = Null
  /\ Len(state.questions) = 2
  /\ \E id \in DOMAIN state.players : ~state.players[id].isConnected

(***************************************************************************)
(* C18: a successful nextQuestion raises the current index by exactly one, *)
(* leaves the phase playing and opens a Round holding the question at that *)
(* index with an empty answer map; at all times the index lies between -1  *)
(* and the number of questions minus one, and an open Round's              *)
(* questionIndex is the machine's current index.                           *)
(***************************************************************************)
C18_NextQuestion ==
  /\ 0 - 1 <= state.currentQuestionIndex
  /\ state.currentQuestionIndex <= Len(state.questions) - 1
  /\ state.currentQuestion # Null =>
       state.currentQuestion[1].questionIndex = state.currentQuestionIndex
  /\ \A t \in Instants :
       nextQuestionOk(state) =>
         LET after == nextQuestion(state, t) IN
         /\ after.currentQuestionIndex = state.currentQuestionIndex + 1
         /\ after.phase = "playing"
         /\ after.currentQuestion # Null
         /\ after.currentQuestion[1].question
              = At(after.questions, after.currentQuestionIndex)
         /\ after.currentQuestion[1].answers = EmptyMap
         /\ after.questions = state.questions
         /\ after.players = state.players

\* the second Round, opened from revealing
C18_Witness ==
  /\ state.phase = "playing"
  /\ state.currentQuestionIndex = 1
  /\ state.currentQuestion # Null
  /\ state.currentQuestion[1].answers = EmptyMap
  /\ Len(state.questionHistory) = 1

(***************************************************************************)
(* C20: the set of player ids grows only while the phase is lobby.         *)
(* Outside lobby, addPlayer with an id that is not in the table returns    *)
(* nothing and leaves the machine unchanged, and addPlayer with an id of   *)
(* the table changes nothing but that player's connectivity flag, which    *)
(* becomes true (score, streak, name and answers stay), whatever name is   *)
(* given.                                                                  *)
(***************************************************************************)
C20_PlayersGrowInLobby ==
  /\ [](\A id \in PlayerIds, name \in PlayerIds \cup {"other"} :
          state.phase # "lobby" =>
            IF id \in DOMAIN state.players
            THEN /\ addPlayer(state, id, name)
                      = [state EXCEPT !.players[id].isConnected = TRUE]
                 /\ addPlayerReturnsPlayer(state, id)
            ELSE /\ addPlayer(state, id, name) = state
                 /\ ~addPlayerReturnsPlayer(state, id))
  /\ [][(DOMAIN state'.players) \ (DOMAIN state.players) # {}
          => state.phase = "lobby"]_vars

\* a player who was marked disconnected during the game, connected again
\* with the score kept, next to one still disconnected
C20_Witness ==
  /\ state.phase \in {"playing", "revealing", "finished"}
  /\ \E id \in DOMAIN state.players :
       state.players[id].isConnected /\ state.players[id].score # 0
  /\ \E id \in DOMAIN state.players : ~state.players[id].isConnected
  /\ state.currentQuestion # Null
  /\ DOMAIN state.currentQuestion[1].answers = DOMAIN state.players

(***************************************************************************)
(* SpecRounds: the room over the rounds of one game, with browsers without *)
(* localStorage, players who join and then only watch (answers change      *)
(* scores and the tracker, never the question index or the phase), and a   *)
(* host who keeps calling nextQuestion: a nextQuestion call that would     *)
(* change something is eventually made.                                    *)
(***************************************************************************)
SpecRounds ==
  InitRoster
  /\ [][\/ HostStartGame
        \/ HostStartGameResume
        \/ HostNextQuestion
        \/ HostRevealAnswer
        \/ HostReceiveAny
        \/ \E p \in Clients : PlayerOpen(p)
        \/ Tick]_vars
  /\ WF_vars(HostNextQuestion)

(***************************************************************************)
(* C19: a started game terminates when the host keeps calling              *)
(* nextQuestion.  Every nextQuestion call in playing or revealing either   *)
(* opens the round of the next index, which stays below the number N of    *)
(* questions, or, when no question remains, ends the game: the machine is  *)
(* finished and game:end is broadcast with the final scoreboard.  Hence    *)
(* every game in playing or revealing eventually reaches finished.         *)
(***************************************************************************)
C19_GameTerminates ==
  /\ [][( /\ HostNextQuestion \/ HostStartGameResume
          /\ state.phase \in {"playing", "revealing"} )
        => IF state.currentQuestionIndex + 1 < Len(state.questions)
           THEN /\ state'.currentQuestionIndex = state.currentQuestionIndex + 1
                /\ state'.currentQuestionIndex < Len(state'.questions)
                /\ Len(state'.questions) = Len(state.questions)
           ELSE /\ state'.phase = "finished"
                /\ state'.currentQuestionIndex = state.currentQuestionIndex
                /\ sent' = <<[target |-> Null,
                              message |-> createGameEndMessage(getScoreboard(state'),
                                                               Len(state'.questions))]>>]_vars
  /\ (state.phase \in {"playing", "revealing"}) ~> (state.phase = "finished")

\* both rounds were opened and the call after them ended the game
C19_Witness ==
  /\ state.phase = "finished"
  /\ Len(state.questions) = 2
  /\ state.currentQuestionIndex = 1
  /\ Len(sent) = 1
  /\ sent[1].message.type = "game:end"
  /\ Len(state.questionHistory) = 2

(***************************************************************************)
(* C21: rematch() on a finished room yields phase lobby with the same      *)
(* player ids in the same order, each with the name and connectivity flag  *)
(* it had, score 0, streak 0 and a power-up state with nothing available,  *)
(* active or used; no current Round, current question index -1, empty      *)
(* question history.                                                       *)
(***************************************************************************)
C21_Rematch ==
  [][(state.phase = "finished" /\ MRematch)
       => /\ state'.phase = "lobby"
          /\ DOMAIN state'.players = DOMAIN state.players
          /\ state'.playerOrder = state.playerOrder
          /\ \A id \in DOMAIN state.players :
               /\ state'.players[id].id = state.players[id].id
               /\ state'.players[id].name = state.players[id].name
               /\ state'.players[id].isConnected = state.players[id].isConnected
               /\ state'.players[id].score = 0
               /\ state'.players[id].streak = 0
               /\ state'.players[id].powerups.active = Null
               /\ state'.players[id].powerups.used = <<>>
          /\ state'.currentQuestion = Null
          /\ state'.currentQuestionIndex = 0 - 1
          /\ state'.questionHistory = <<>>]_vars

\* a lobby that still holds the question list of the game before it, with
\* one player disconnected
C21_Witness ==
  /\ state.phase = "lobby"
  /\ Len(state.questions) = 2
  /\ Cardinality(DOMAIN state.players) = 2
  /\ \E id \in DOMAIN state.players : ~state.players[id].isConnected
  /\ \A id \in DOMAIN state.players : state.players[id].score = 0

(***************************************************************************)
(* SpecReplace: the rounds of one game with the host's replaceQuestion;    *)
(* players join and watch.                                                 *)
(***************************************************************************)
HostReplaceQuestion ==
  /\ IF state.currentQuestion = Null
     THEN HostStep(HostOf)
     ELSE IF replacementsAvailable(state) = {}
          THEN HostStep(HostOf)
          ELSE \E i \in replacementsAvailable(state) :
                 HostStep(hostReplaceQuestion(HostOf, questionSource[i], now))
  /\ UNCHANGED toHost

SpecReplace ==
  InitRoster
  /\ [][\/ HostStartGame
        \/ HostStartGameResume
        \/ HostNextQuestion
        \/ HostReplaceQuestion
        \/ HostRevealAnswer
        \/ HostReceiveAny
        \/ \E p \in Clients : PlayerOpen(p)
        \/ Tick]_vars

(***************************************************************************)
(* C22: no question id is shown in two different rounds of one game: the   *)
(* questions the machine holds for the rounds opened so far (the one last  *)
(* shown in each round, replacements included) have pairwise distinct ids. *)
(***************************************************************************)
C22_NoQuestionTwice ==
  \A i, j \in 1..(state.currentQuestionIndex + 1) :
    i # j => state.questions[i].id # state.questions[j].id

(***************************************************************************)
(* SpecPowerups: a caller drives one PowerupManager directly, with any     *)
(* default list, any method and any power-up id.                           *)
(***************************************************************************)
MaxPowerups == 2

PowerupIds == {"double-points", "extra-time", "shield", "unknown"}

InitPowerups ==
  /\ InitConstruction
  /\ storage = [p \in PlayerIds |-> StorageInit(TRUE)]
  /\ \E defaults \in {<<>>, <<SHIELD, EXTRA_TIME>>} :
       config = [DefaultConfig EXCEPT !.powerups = defaults]

\* one call of a PowerupManager method: pm1 is the manager's Map after the call
PowerupCall(pm1, made) ==
  /\ playerStates' = pm1
  /\ call' = made
  /\ UNCHANGED <<state, tracker, config, hook, pending, now, toHost, sent, client, storage>>

PActivateForPlayer(id, powerupId) ==
  PowerupCall(activateForPlayer(playerStates, id, powerupId),
              [op |-> "activateForPlayer", playerId |-> id, powerupId |-> powerupId,
               ok |-> activateForPlayerOk(playerStates, id, powerupId)])

PConsumeAllActive ==
  PowerupCall(consumeAllActive(playerStates), [op |-> "consumeAllActive"])

SpecPowerups ==
  InitPowerups
  /\ [][\/ \E id \in PlayerIds :
             PowerupCall(initPlayer(playerStates, config.powerups, id),
                         [op |-> "initPlayer", playerId |-> id])
        \/ \E id \in PlayerIds, powerup \in {SHIELD, DOUBLE_POINTS} :
             \* the power-ups a player holds or has held stay below MaxPowerups
             /\ id \in DOMAIN playerStates =>
                  Len(playerStates[id].available) + Len(playerStates[id].used)
                    + (IF playerStates[id].active = Null THEN 0 ELSE 1) < MaxPowerups
             /\ PowerupCall(grantToPlayer(playerStates, id, powerup),
                            [op |-> "grantToPlayer", playerId |-> id])
        \/ \E id \in PlayerIds, powerupId \in PowerupIds : PActivateForPlayer(id, powerupId)
        \/ PConsumeAllActive
        \/ PowerupCall(resetPowerups(playerStates, config.powerups), [op |-> "reset"])
        \/ \E id \in PlayerIds :
             PowerupCall(removePowerupPlayer(playerStates, id),
                         [op |-> "removePlayer", playerId |-> id])]_vars

(***************************************************************************)
(* C23: power-up operations that cannot apply leave the player's power-up  *)
(* state untouched: activateForPlayer returns false and changes nothing    *)
(* when the id is not in the available list or a power-up is already       *)
(* active, and consuming with nothing active changes nothing.  A           *)
(* successful activation removes exactly one entry with that id from       *)
(* available, makes it the active power-up and leaves used alone.  Every   *)
(* player has at most one active power-up.                                 *)
(***************************************************************************)
PowerupEntries(list, powerup) == Cardinality({i \in 1..Len(list) : list[i] = powerup})

C23_PowerupOperations ==
  [][ /\ \A id \in DOMAIN playerStates, powerupId \in PowerupIds :
           PActivateForPlayer(id, powerupId)
           => LET ps == playerStates[id]
                  after == playerStates'[id]
                  listed == \E i \in 1..Len(ps.available) : ps.available[i].id = powerupId
              IN /\ \A other \in (DOMAIN playerStates) \ {id} :
                      playerStates'[other] = playerStates[other]
                 /\ IF ~listed \/ ps.active # Null
                    THEN after = ps /\ ~call'.ok
                    ELSE /\ call'.ok
                         /\ after.active # Null
                         /\ after.active[1].id = powerupId
                         /\ Len(after.available) = Len(ps.available) - 1
                         /\ \A powerup \in {SHIELD, DOUBLE_POINTS, EXTRA_TIME} :
                              PowerupEntries(after.available, powerup)
                                = PowerupEntries(ps.available, powerup)
                                    - (IF powerup = after.active[1] THEN 1 ELSE 0)
                         /\ after.used = ps.used
      /\ PConsumeAllActive
           => \A id \in DOMAIN playerStates :
                playerStates[id].active = Null => playerStates'[id] = playerStates[id]
      /\ \A id \in DOMAIN playerStates' : Len(playerStates'[id].active) <= 1 ]_vars

\* an activation refused because a power-up is active, for an id that is
\* in the available list
C23_Witness ==
  /\ call.op = "activateForPlayer"
  /\ ~call.ok
  /\ call.playerId \in DOMAIN playerStates
  /\ playerStates[call.playerId].active # Null
  /\ \E i \in 1..Len(playerStates[call.playerId].available) :
       playerStates[call.playerId].available[i].id = call.powerupId

(***************************************************************************)
(* SpecHostInput: the host hook with power-ups configured, handed any      *)
(* message a player's hook can put on the channel (any type, any number of *)
(* times, in any order), between the host's own startGame, nextQuestion    *)
(* and revealAnswer.                                                       *)
(***************************************************************************)
InitHostInput ==
  /\ InitConstruction
  /\ config = [DefaultConfig EXCEPT !.powerups = <<SHIELD, EXTRA_TIME>>]
  /\ storage = [p \in PlayerIds |-> StorageInit(FALSE)]

\* the player messages that can arrive now
InputMessages ==
  {createPlayerJoinMessage(p, NameOf(p)) : p \in Clients}
  \cup {createPlayerRejoinMessage(p) : p \in Clients}
  \cup {createPlayerPowerupMessage(p, config.powerups[i].id) :
          p \in Clients, i \in 1..Len(config.powerups)}
  \cup {createPlayerAnswerMessage(
          [playerId |-> p,
           questionId |-> IF state.currentQuestion = Null THEN "q1"
                          ELSE state.currentQuestion[1].question.id,
           answer |-> v, timestamp |-> now,
           answeredAt |-> now - tracker.questionStartTime]) :
          p \in Clients, v \in AnswerValues}

HostHandle(message) ==
  /\ HostStep(handlePlayerMessage(HostOf, message))
  /\ UNCHANGED toHost

HostHandleAny == \E message \in InputMessages : HostHandle(message)

SpecHostInput ==
  InitHostInput
  /\ [][\/ HostStartGame
        \/ HostStartGameResume
        \/ HostNextQuestion
        \/ HostRevealAnswer
        \/ HostHandleAny
        \/ Tick]_vars

(***************************************************************************)
(* C24: during a game a power-up a player has activated or consumed never  *)
(* returns to that player's available list and the used list never         *)
(* shrinks, whatever player message the host handles (player:join,         *)
(* player:rejoin, player:powerup, player:answer, duplicates included):     *)
(* handling a message leaves the number of power-ups still available no    *)
(* larger, and the used list an extension of what it was.                  *)
(***************************************************************************)
C24_NoReplenish ==
  [][\A message \in InputMessages :
       ( /\ HostHandle(message)
         /\ state.phase \in {"playing", "revealing"}
         /\ message.payload.playerId \in DOMAIN playerStates )
       => LET id == message.payload.playerId IN
          /\ id \in DOMAIN playerStates'
          /\ Len(playerStates'[id].available) <= Len(playerStates[id].available)
          /\ Len(playerStates'[id].used) >= Len(playerStates[id].used)
          /\ SubSeq(playerStates'[id].used, 1, Len(playerStates[id].used))
               = playerStates[id].used]_vars

(***************************************************************************)
(* C25: a power-up that is active for a player while a round is open       *)
(* (phase playing) is consumed at that round's resolution: when            *)
(* nextQuestion opens the next Round, the player no longer has it active   *)
(* and its id is in the player's used list.                                *)
(***************************************************************************)
C25_ConsumedAtResolution ==
  [][\A id \in DOMAIN playerStates :
       ( /\ HostNextQuestion
         /\ state.phase = "playing"
         /\ state.currentQuestion # Null
         /\ playerStates[id].active # Null
         /\ state'.currentQuestionIndex = state.currentQuestionIndex + 1 )
       => /\ playerStates'[id].active = Null
          /\ \E i \in 1..Len(playerStates'[id].used) :
               playerStates'[id].used[i] = playerStates[id].active[1].id]_vars

(***************************************************************************)
(* C26: when the host scores an accepted answer (a known player, a round   *)
(* open), a correct answer raises the player's streak by exactly 1 and     *)
(* never lowers the score; a wrong answer leaves the score as it is,       *)
(* whatever the streak, the elapsed time or the active power-up, and       *)
(* resets the streak to 0 unless the player's active power-up is shield,   *)
(* in which case the streak is unchanged.                                  *)
(***************************************************************************)
C26_StreakAndWrongAnswers ==
  [][\A message \in InputMessages :
       ( /\ HostHandle(message)
         /\ message.type = "player:answer"
         /\ state.currentQuestion # Null
         /\ message.payload.playerId \in DOMAIN state.players
         /\ message.payload.playerId \notin DOMAIN tracker.answers
         /\ message.payload.playerId \in DOMAIN tracker'.answers )
       => LET id == message.payload.playerId
              correct == message.payload.answer
                           = state.currentQuestion[1].question.correctOptionIndex
              shielded == /\ id \in DOMAIN playerStates
                          /\ playerStates[id].active # Null
                          /\ playerStates[id].active[1].effect = "shield"
          IN IF correct
             THEN /\ state'.players[id].streak = state.players[id].streak + 1
                  /\ state'.players[id].score >= state.players[id].score
             ELSE /\ state'.players[id].score = state.players[id].score
                  /\ tracker'.answers[id].pointsAwarded = Some(0)
                  /\ state'.players[id].streak
                       = IF shielded THEN state.players[id].streak ELSE 0]_vars

\* a wrong answer under shield that kept a streak of 1
C26_Witness ==
  /\ "p1" \in DOMAIN tracker.answers
  /\ tracker.answers["p1"].isCorrect = Some(FALSE)
  /\ "p1" \in DOMAIN state.players
  /\ state.players["p1"].streak = 1
  /\ "p1" \in DOMAIN playerStates
  /\ playerStates["p1"].active = Some(SHIELD)
  /\ state.phase = "playing"

(***************************************************************************)
(* C27: with late answers disallowed, a player whose active power-up is    *)
(* extra-time with value v has a personal deadline of the round's limit    *)
(* plus v seconds: that player's first answer of the round with elapsed    *)
(* time up to limit + v is accepted, while an answer beyond the limit of a *)
(* player without extra-time is rejected as late.                          *)
(***************************************************************************)
C27_PersonalDeadline ==
  [][\A message \in InputMessages :
       ( /\ HostHandle(message)
         /\ message.type = "player:answer"
         /\ ~config.allowLateAnswers
         /\ state.phase = "playing"
         /\ state.currentQuestion # Null
         /\ message.payload.playerId \in DOMAIN state.players
         /\ message.payload.playerId \in DOMAIN playerStates
         /\ message.payload.playerId \notin DOMAIN tracker.answers )
       => LET id == message.payload.playerId
              elapsed == message.payload.timestamp - tracker.questionStartTime
              extra == getExtraTime(playerStates[id])
          IN /\ elapsed <= (config.questionTimeLimit + extra) * 1000
                  => id \in DOMAIN tracker'.answers
             /\ elapsed > (config.questionTimeLimit + extra) * 1000
                  => id \notin DOMAIN tracker'.answers]_vars

(***************************************************************************)
(* SpecScoreboard: calculateScoreboard applied to any player Map of up to  *)
(* four players, in any insertion order, with any scores of a small set.   *)
(***************************************************************************)
\* the insertion orders of a Map with the given keys
MapOrders(ids) ==
  {order \in [1..Cardinality(ids) -> ids] :
     \A i, j \in 1..Cardinality(ids) : order[i] = order[j] => i = j}

InitScoreboard ==
  /\ state = GameMachineInit
  /\ tracker = AnswerTrackerInit
  /\ config = DefaultConfig
  /\ playerStates = EmptyMap
  /\ hook = [gameState |-> "lobby", allPlayersAnswered |-> FALSE]
  /\ pending = [reveal |-> 0, nextQuestion |-> 0]
  /\ now = 0
  /\ toHost = {}
  /\ sent = <<>>
  /\ client = [p \in PlayerIds |-> ClientInit]
  /\ storage = [p \in PlayerIds |-> StorageInit(TRUE)]
  /\ \E ids \in SUBSET {"p1", "p2", "p3", "p4"} :
       \E order \in MapOrders(ids), scores \in [ids -> {50, 80, 100}] :
         call = [op |-> "players",
                 players |-> [id \in ids |-> [createPlayer(id, id) EXCEPT
                                                !.score = scores[id]]],
                 playerOrder |-> order]

SpecScoreboard ==
  InitScoreboard
  /\ [][/\ call.op = "players"
        /\ call' = [op |-> "calculateScoreboard", players |-> call.players,
                    playerOrder |-> call.playerOrder,
                    board |-> calculateScoreboard(call.players, call.playerOrder, EmptyMap)]
        /\ UNCHANGED <<state, tracker, config, playerStates, hook, pending, now, toHost,
                       sent, client, storage>>]_vars

(***************************************************************************)
(* C28: calculateScoreboard returns one entry per player, sorted by        *)
(* descending score, each with the player's score and with rank 1 plus the *)
(* number of players whose score is strictly higher (ties share a rank;    *)
(* scores 100,100,80,50 give ranks 1,1,3,4): the ranks depend on the       *)
(* scores only, not on the insertion order.                                *)
(***************************************************************************)
C28_Scoreboard ==
  call.op = "calculateScoreboard" =>
    LET board == call.board
        players == call.players
    IN /\ Len(board) = Cardinality(DOMAIN players)
       /\ {board[i].playerId : i \in 1..Len(board)} = DOMAIN players
       /\ \A i \in 1..Len(board) :
            /\ board[i].score = players[board[i].playerId].score
            /\ board[i].rank
                 = 1 + Cardinality({id \in DOMAIN players :
                                      players[id].score > board[i].score})
       /\ \A i \in 1..(Len(board) - 1) : board[i].score >= board[i + 1].score
       /\ \A order \in MapOrders(DOMAIN players) :
            LET other == calculateScoreboard(players, order, EmptyMap)
            IN \A i, j \in 1..Len(board) :
                 board[i].playerId = other[j].playerId => board[i].rank = other[j].rank

C28_Witness ==
  /\ call.op = "calculateScoreboard"
  /\ Len(call.board) = 4
  /\ [i \in 1..4 |-> call.board[i].score] = <<100, 100, 80, 50>>
  /\ [i \in 1..4 |-> call.board[i].rank] = <<1, 1, 3, 4>>
  /\ call.playerOrder[1] = call.board[4].playerId

(***************************************************************************)
(* SpecScores: the host hook handed any player message, with the host's    *)
(* own startGame, nextQuestion, revealAnswer, endGame, rematch and         *)
(* adjustScore in between.                                                 *)
(***************************************************************************)
HostRematch ==
  /\ HostStep(hostRematch(HostOf))
  /\ UNCHANGED toHost

HostAdjustScore(playerId, points) ==
  /\ HostStep(hostAdjustScore(HostOf, playerId, points))
  /\ UNCHANGED toHost

SpecScores ==
  InitRoster
  /\ [][\/ HostStartGame
        \/ HostStartGameResume
        \/ HostNextQuestion
        \/ HostRevealAnswer
        \/ HostEndGame
        \/ HostRematch
        \/ \E p \in Clients, points \in AdjustDeltas : HostAdjustScore(p, points)
        \/ HostHandleAny]_vars

(***************************************************************************)
(* C29: the cumulative score of a player who stays in the game never       *)
(* decreases in a step of the host hook, except in the host's adjustScore  *)
(* and in the reset of a rematch; handling a player:join or player:rejoin  *)
(* message in particular never lowers a score.                             *)
(***************************************************************************)
C29_ScoreMonotonic ==
  [][\A p \in DOMAIN state.players \cap DOMAIN state'.players :
       state'.players[p].score < state.players[p].score
         => \/ HostRematch
            \/ \E points \in AdjustDeltas : HostAdjustScore(p, points)]_vars

(***************************************************************************)
(* C30: in the answer tracker the ordering list holds exactly the players  *)
(* with an accepted answer, once each (its length is the accepted-answer   *)
(* count); an accepted submitAnswer returns as answerOrder the 1-based     *)
(* position of its entry and a rejected one adds no entry;                 *)
(* getAnswerPosition is -1 for a player without an accepted answer and,    *)
(* once assigned, does not change until the next startQuestion;            *)
(* startQuestion empties the answers and the ordering list.                *)
(***************************************************************************)
C30_AnswerOrdering ==
  /\ [](/\ Len(tracker.answerOrder) = getAnswerCount(tracker)
        /\ {tracker.answerOrder[i] : i \in 1..Len(tracker.answerOrder)}
             = DOMAIN tracker.answers
        /\ \A p \in PlayerIds :
             IF p \in DOMAIN tracker.answers
             THEN /\ getAnswerPosition(tracker, p) \in 1..Len(tracker.answerOrder)
                  /\ tracker.answerOrder[getAnswerPosition(tracker, p)] = p
             ELSE getAnswerPosition(tracker, p) = 0 - 1)
  /\ [][/\ \A id \in PlayerIds, at \in Instants :
             TSubmitAnswer(id, 1, at) =>
               IF call'.result.accepted
               THEN /\ Len(tracker'.answerOrder) = Len(tracker.answerOrder) + 1
                    /\ call'.result.answerOrder = Some(Len(tracker'.answerOrder))
                    /\ call'.result.answerOrder = Some(getAnswerPosition(tracker', id))
               ELSE /\ tracker'.answerOrder = tracker.answerOrder
                    /\ tracker'.answers = tracker.answers
        /\ \A p \in PlayerIds :
             getAnswerPosition(tracker, p) # 0 - 1 /\ ~TStartQuestion
               => getAnswerPosition(tracker', p) = getAnswerPosition(tracker, p)
        /\ TStartQuestion => /\ tracker'.answers = EmptyMap
                             /\ tracker'.answerOrder = <<>>
                             /\ getAnswerCount(tracker') = 0]_vars

C30_Witness ==
  /\ call.op = "submitAnswer"
  /\ call.result.accepted
  /\ call.result.answerOrder = Some(2)
  /\ Len(tracker.answerOrder) = 2
  /\ getAnswerPosition(tracker, call.submission.playerId) = 2

(***************************************************************************)
(* SpecAuto: the host hook with autoAdvanceOnAllAnswered, two players'     *)
(* join and answer messages, the host's startGame, nextQuestion and        *)
(* kickPlayer, and the deferred reveal the answer handler schedules with   *)
(* setTimeout.  An answer message names the question its sender was shown. *)
(***************************************************************************)
InitAuto ==
  /\ InitConstruction
  /\ config = [DefaultConfig EXCEPT !.autoAdvanceOnAllAnswered = TRUE]
  /\ storage = [p \in PlayerIds |-> StorageInit(FALSE)]

\* the callback of setTimeout(() => performRevealAnswer(), 0)
HostDeferredReveal ==
  /\ pending.reveal > 0
  /\ HostStep(performRevealAnswer([HostOf EXCEPT !.pending.reveal = @ - 1]))
  /\ UNCHANGED toHost

SpecAuto ==
  InitAuto
  /\ [][\/ HostStartGame
        \/ HostStartGameResume
        \/ HostNextQuestion
        \/ HostDeferredReveal
        \/ \E p \in PlayerIds : HostKickPlayer(p)
        \/ \E p \in PlayerIds : HostHandle(createPlayerJoinMessage(p, NameOf(p)))
        \/ \E p \in PlayerIds, v \in AnswerValues :
             /\ state.currentQuestion # Null
             /\ HostHandle(createPlayerAnswerMessage(
                             [playerId |-> p,
                              questionId |-> state.currentQuestion[1].question.id,
                              answer |-> v, timestamp |-> now, answeredAt |-> 0]))]_vars
  /\ WF_vars(HostDeferredReveal)

(***************************************************************************)
(* C31: with autoAdvanceOnAllAnswered, whenever every connected player (at *)
(* least one) has an accepted answer for the open round, the hook's        *)
(* allPlayersAnswered flag is true and the round is revealed without a     *)
(* host action: the machine reaches revealing and answer:reveal is         *)
(* broadcast.                                                              *)
(***************************************************************************)
C31_AutoReveal ==
  /\ [](/\ state.phase = "playing"
        /\ state.currentQuestion # Null
        /\ \E id \in DOMAIN state.players : state.players[id].isConnected
        /\ \A id \in DOMAIN state.players :
             state.players[id].isConnected => hasAnswered(tracker, id)
        => hook.allPlayersAnswered)
  /\ (/\ state.phase = "playing"
      /\ state.currentQuestion # Null
      /\ \E id \in DOMAIN state.players : state.players[id].isConnected
      /\ \A id \in DOMAIN state.players :
           state.players[id].isConnected => hasAnswered(tracker, id))
       ~> (state.phase = "revealing"
           /\ \E i \in 1..Len(sent) : sent[i].message.type = "answer:reveal")

(***************************************************************************)
(* SpecScoring: the scoring functions applied to their arguments: the time *)
(* bonus of a correct answer at any elapsed time of a 100 ms grid under a  *)
(* limit of 0 (none), 5 or 20 s, and the estimation score for any guess,   *)
(* target, bounds and estimation configuration of a small set.  Numbers    *)
(* are exact rationals; a score is rounded as Math.round does.             *)
(***************************************************************************)
MaxElapsed == 21000

MaxGuess == 6

\* an exact match is looked for only once the bounds are known to span a range
calculateEstimationScoreRangeFirst(guess, correctAnswer, lowerBound, upperBound, cfg) ==
  LET range == upperBound - lowerBound
      difference == IF guess >= correctAnswer THEN guess - correctAnswer
                    ELSE correctAnswer - guess
      scoreTimesRange == cfg.minScore * range
                           + difference * (cfg.maxScore - cfg.minScore) * 100
  IN IF range <= 0 THEN cfg.maxScore
     ELSE IF guess = correctAnswer THEN cfg.exactMatchBonus
     ELSE IF cfg.capAtMax /\ scoreTimesRange > cfg.maxScore * range
          THEN Round(cfg.maxScore * range, range)
          ELSE Round(scoreTimesRange, range)

calculateEstimationScore(guess, correctAnswer, lowerBound, upperBound, cfg) ==
  LET range == upperBound - lowerBound
      difference == IF guess >= correctAnswer THEN guess - correctAnswer
                    ELSE correctAnswer - guess
      scoreTimesRange == cfg.minScore * range
                           + difference * (cfg.maxScore - cfg.minScore) * 100
  IN IF guess = correctAnswer THEN cfg.exactMatchBonus
     ELSE IF range <= 0 THEN cfg.maxScore
     ELSE IF cfg.capAtMax /\ scoreTimesRange > cfg.maxScore * range
          THEN Round(cfg.maxScore * range, range)
          ELSE Round(scoreTimesRange, range)

SpecScoring ==
  InitRoster
  /\ [][\/ \E answeredAt \in {e \in 0..MaxElapsed : e % 100 = 0}, timeLimit \in {0, 5, 20} :
             /\ call' = [op |-> "calculateScore", answeredAt |-> answeredAt,
                         timeLimit |-> timeLimit,
                         timeBonus |-> calculateTimeBonus(answeredAt, timeLimit),
                         totalPoints |-> calculateScore(Q1, [answeredAt |-> answeredAt],
                                                        TRUE, 0, timeLimit)]
             /\ UNCHANGED <<hostVars, netVars, clientVars, now>>
        \/ \E guess \in 0..MaxGuess, correctAnswer \in {2, 3}, lowerBound \in {0, 4},
              upperBound \in {0, 4, 400}, exactMatchBonus \in {0 - 10}, minScore \in {1, 30},
              maxScore \in {25}, capAtMax \in BOOLEAN :
             /\ call' = [op |-> "calculateEstimationScore", guess |-> guess,
                         correctAnswer |-> correctAnswer, lowerBound |-> lowerBound,
                         upperBound |-> upperBound,
                         config |-> [exactMatchBonus |-> exactMatchBonus,
                                     minScore |-> minScore, maxScore |-> maxScore,
                                     capAtMax |-> capAtMax],
                         score |-> calculateEstimationScore(
                                     guess, correctAnswer, lowerBound, upperBound,
                                     [exactMatchBonus |-> exactMatchBonus,
                                      minScore |-> minScore, maxScore |-> maxScore,
                                      capAtMax |-> capAtMax])]
             /\ UNCHANGED <<hostVars, netVars, clientVars, now>>]_vars

(***************************************************************************)
(* C32: the time bonus of a correct answer is max(0, maxBonus -            *)
(* decayPerSecond x elapsed seconds) rounded to the nearest integer before *)
(* the time limit and 0 at or after it, it never grows with the elapsed    *)
(* time, and it is what calculateScore adds to the base points; with       *)
(* maxBonus 50, decay 5 per second and limit 20 s the bonus is 50 at 0 s   *)
(* and 0 at 10 s, 15 s and 20 s.                                           *)
(***************************************************************************)
C32_TimeBonus ==
  call.op = "calculateScore" /\ call.timeLimit # 0 =>
    LET bonusTimes1000 == MaxBonus * 1000 - DecayPerSecond * call.answeredAt
    IN /\ call.answeredAt >= call.timeLimit * 1000 => call.timeBonus = 0
       /\ call.answeredAt < call.timeLimit * 1000 /\ bonusTimes1000 <= 0
            => call.timeBonus = 0
       /\ call.answeredAt < call.timeLimit * 1000 /\ bonusTimes1000 > 0
            => /\ 2000 * call.timeBonus <= 2 * bonusTimes1000 + 1000
               /\ 2 * bonusTimes1000 + 1000 < 2000 * (call.timeBonus + 1)
       /\ \A later \in {e \in 0..MaxElapsed : e % 100 = 0} :
            later >= call.answeredAt
              => calculateTimeBonus(later, call.timeLimit) <= call.timeBonus
       /\ call.totalPoints = BasePoints + call.timeBonus
       /\ call.timeLimit = 20 =>
            /\ call.answeredAt = 0 => call.timeBonus = 50
            /\ call.answeredAt \in {10000, 15000, 20000} => call.timeBonus = 0

C32_Witness ==
  /\ call.op = "calculateScore"
  /\ call.timeLimit = 5
  /\ call.answeredAt = 5000
  /\ call.timeBonus = 0
  /\ calculateTimeBonus(4900, 5) = 26

(***************************************************************************)
(* C33: calculateEstimationScore returns exactMatchBonus when the guess    *)
(* equals the target, also when the bounds collapse; otherwise maxScore    *)
(* when upperBound - lowerBound <= 0; otherwise minScore + |guess -        *)
(* target| / (upperBound - lowerBound) x (maxScore - minScore) x 100,      *)
(* rounded, and capped at maxScore when capAtMax is set: with capAtMax and *)
(* maxScore >= minScore every non-exact score lies between minScore and    *)
(* maxScore.                                                               *)
(***************************************************************************)
C33_EstimationScore ==
  call.op = "calculateEstimationScore" =>
    LET cfg == call.config
        range == call.upperBound - call.lowerBound
        difference == IF call.guess >= call.correctAnswer
                      THEN call.guess - call.correctAnswer
                      ELSE call.correctAnswer - call.guess
        \* the uncapped score, times range
        exact == cfg.minScore * range + difference * (cfg.maxScore - cfg.minScore) * 100
        IsRounded(n) == /\ 2 * n * range <= 2 * exact + range
                        /\ 2 * exact + range < 2 * (n + 1) * range
    IN /\ call.guess = call.correctAnswer => call.score = cfg.exactMatchBonus
       /\ call.guess # call.correctAnswer /\ range <= 0 => call.score = cfg.maxScore
       /\ call.guess # call.correctAnswer /\ range > 0 =>
            IF cfg.capAtMax /\ 2 * exact + range >= 2 * (cfg.maxScore + 1) * range
            THEN call.score = cfg.maxScore
            ELSE IsRounded(call.score)
       /\ call.guess # call.correctAnswer /\ cfg.capAtMax /\ cfg.maxScore >= cfg.minScore
            => call.score >= cfg.minScore /\ call.score <= cfg.maxScore

C33_Witness ==
  /\ call.op = "calculateEstimationScore"
  /\ call.guess = call.correctAnswer
  /\ call.upperBound - call.lowerBound <= 0
  /\ call.score = 0 - 10
  /\ calculateEstimationScore(3, 2, 0, 400, call.config) \in {7, 29}

(***************************************************************************)
(* C34: once the host has validated and scored a player's accepted answer  *)
(* of the current round, the player's entry in the scoreboards the host    *)
(* computes for that round (its own and the one in answer:reveal) carries  *)
(* the correctness and the points assigned: lastAnswerCorrect and          *)
(* pointsThisRound.                                                        *)
(***************************************************************************)
C34_RoundResults ==
  \A id \in DOMAIN state.players \cap DOMAIN tracker.answers :
    state.currentQuestion # Null /\ tracker.answers[id].isCorrect # Null =>
      /\ \A k \in 1..Len(getScoreboard(state)) :
           getScoreboard(state)[k].playerId = id =>
             /\ getScoreboard(state)[k].lastAnswerCorrect = tracker.answers[id].isCorrect
             /\ getScoreboard(state)[k].pointsThisRound = tracker.answers[id].pointsAwarded
      /\ \A i \in 1..Len(sent) :
           sent[i].message.type = "answer:reveal" =>
             \A k \in 1..Len(sent[i].message.payload.scoreboard) :
               sent[i].message.payload.scoreboard[k].playerId = id =>
                 /\ sent[i].message.payload.scoreboard[k].lastAnswerCorrect
                      = tracker.answers[id].isCorrect
                 /\ sent[i].message.payload.scoreboard[k].pointsThisRound
                      = tracker.answers[id].pointsAwarded

(***************************************************************************)
(* C35: after every host action (startGame and its continuation,           *)
(* nextQuestion, revealAnswer or endRound, endGame, rematch), accepted by  *)
(* the machine or rejected as illegal in the current phase, the gameState  *)
(* useQuizHost exposes equals the phase of its GameMachine.                *)
(***************************************************************************)
C35_HostGameState ==
  [][( \/ HostStartGame
       \/ HostStartGameResume
       \/ HostNextQuestion
       \/ HostRevealAnswer
       \/ HostEndGame
       \/ HostRematch )
     => hook'.gameState = state'.phase]_vars

(***************************************************************************)
(* C36: whatever timestamp a player:answer carries, one before the start   *)
(* of the round on the host's clock included, the time bonus used to score *)
(* the answer lies within 0..maxBonus and the points awarded are at most   *)
(* those of the same answer given at elapsed time 0.  Stated for the       *)
(* answer handler applied, in any state with a round open, to an answer of *)
(* a player who has none yet.                                              *)
(***************************************************************************)
C36_BonusWithinBounds ==
  \A p \in DOMAIN state.players, v \in AnswerValues,
     skew \in {0 - 1000, 0, 1000} :
    state.phase = "playing" /\ state.currentQuestion # Null /\ ~hasAnswered(tracker, p) =>
      LET answer == [playerId |-> p, questionId |-> state.currentQuestion[1].question.id,
                     answer |-> v, timestamp |-> tracker.questionStartTime + skew,
                     answeredAt |-> skew]
          h == hostPlayerAnswer(HostOf, answer)
          atStart == hostPlayerAnswer(
                       HostOf, [answer EXCEPT !.timestamp = tracker.questionStartTime])
      IN hasAnswered(h.tracker, p) =>
           /\ calculateTimeBonus(h.tracker.answers[p].answeredAt, config.questionTimeLimit)
                \in 0..MaxBonus
           /\ h.tracker.answers[p].pointsAwarded[1]
                <= atStart.tracker.answers[p].pointsAwarded[1]

(***************************************************************************)
(* SpecLimits: the host hook with a question source whose first question   *)
(* carries its own timeLimit (2 s, the room's questionTimeLimit being 1    *)
(* s): startGame, nextQuestion, the clock, and a player's join and answer  *)
(* messages.                                                               *)
(***************************************************************************)
SpecLimits ==
  InitRoster
  /\ [][\/ /\ pending.nextQuestion < MaxPending
           /\ HostStep(hostStartGame(HostOf, <<[timeLimit |-> 2] @@ Q1, Q2>>))
           /\ UNCHANGED toHost
        \/ HostStartGameResume
        \/ HostNextQuestion
        \/ HostRevealAnswer
        \/ Tick
        \/ \E p \in Clients : HostHandle(createPlayerJoinMessage(p, NameOf(p)))
        \/ \E p \in Clients, v \in AnswerValues :
             /\ state.currentQuestion # Null
             /\ HostHandle(createPlayerAnswerMessage(
                             [playerId |-> p,
                              questionId |-> state.currentQuestion[1].question.id,
                              answer |-> v, timestamp |-> now,
                              answeredAt |-> now - tracker.questionStartTime]))]_vars

(***************************************************************************)
(* C37: the deadline the host enforces for a round is the time limit it    *)
(* announced in the round's question:show or question:replaced message,    *)
(* also for a question with its own timeLimit: an answer of a player       *)
(* without one is rejected as late exactly when its elapsed time exceeds   *)
(* the announced limit, and a correct answer is scored with the time bonus *)
(* of the announced limit.                                                 *)
(***************************************************************************)
C37_AnnouncedDeadline ==
  [][\A i \in 1..Len(sent'), p \in DOMAIN state'.players, elapsed \in Instants :
       sent'[i].message.type \in {"question:show", "question:replaced"} =>
         LET announced == sent'[i].message.payload.timeLimit
             question == state'.currentQuestion[1].question
             h == hostPlayerAnswer(
                    HostOf',
                    [playerId |-> p, questionId |-> question.id,
                     answer |-> question.correctOptionIndex,
                     timestamp |-> tracker'.questionStartTime + elapsed,
                     answeredAt |-> elapsed])
         IN /\ hasAnswered(h.tracker, p) <=> elapsed <= announced * 1000
            /\ hasAnswered(h.tracker, p) =>
                 h.tracker.answers[p].pointsAwarded
                   = Some(calculateScore(question, [answeredAt |-> elapsed], TRUE,
                                         state'.players[p].streak, announced))]_vars

(***************************************************************************)
(* C38: the deferred reveal scheduled when the last connected player       *)
(* answers reveals only the round that triggered it, and a round is        *)
(* revealed at most once.  When the deferred call runs with no answer      *)
(* accepted in the open round (a round opened after the trigger: the       *)
(* trigger is an accepted answer, and only the opening of a round empties  *)
(* the tracker), or outside playing (the round is revealed already or the  *)
(* game has ended), it changes neither the phase nor the question history  *)
(* and broadcasts no answer:reveal.                                        *)
(***************************************************************************)
C38_DeferredRevealOwnRound ==
  [][HostDeferredReveal /\ (tracker.answers = EmptyMap \/ state.phase # "playing")
       => /\ state'.phase = state.phase
          /\ state'.questionHistory = state.questionHistory
          /\ \A i \in 1..Len(sent') : sent'[i].message.type # "answer:reveal"]_vars

(***************************************************************************)
(* SpecBackup: one host hook from mount to unmount with its throttled game *)
(* backup.  The record `pending` carries three more host-side fields here: *)
(* the throttle's timeoutId and pendingBackup, and `stored`, the backup    *)
(* localStorage holds for the room.  The 5 s interval is not measured: an  *)
(* armed timer fires at any later step.                                    *)
(***************************************************************************)
InitBackup ==
  /\ state = GameMachineInit
  /\ tracker = AnswerTrackerInit
  /\ playerStates = EmptyMap
  /\ hook = [gameState |-> "lobby", allPlayersAnswered |-> FALSE]
  /\ pending = [reveal |-> 0, nextQuestion |-> 0, mounted |-> TRUE,
                timeoutId |-> FALSE, pendingBackup |-> Null, stored |-> Null]
  /\ now = 0
  /\ toHost = {}
  /\ sent = <<>>
  /\ client = [p \in PlayerIds |-> ClientInit]
  /\ call = [op |-> "none"]
  /\ config = DefaultConfig
  /\ storage = [p \in PlayerIds |-> StorageInit(FALSE)]

\* The object createThrottledBackup returns, acting on the fields of `pending`:
\* backup(snapshot), the timer's callback, and cancel().
createThrottledBackup(b, op, snapshot) ==
  LET doBackup(x) == IF x.pendingBackup # Null
                     THEN [x EXCEPT !.stored = x.pendingBackup, !.pendingBackup = Null]
                     ELSE x
  IN CASE op = "backup" -> [b EXCEPT !.pendingBackup = Some(snapshot), !.timeoutId = TRUE]
       [] op = "timeout" -> [doBackup(b) EXCEPT !.timeoutId = FALSE]
       [] op = "cancel" -> doBackup([b EXCEPT !.timeoutId = FALSE])

SpecBackup ==
  InitBackup
  /\ [][\/ pending.mounted /\ HostStartGame
        \/ /\ pending.mounted
           /\ \E resumed \in BOOLEAN :
                /\ resumed => pending.nextQuestion > 0
                /\ LET h0 == IF resumed
                             THEN [HostOf EXCEPT !.pending.nextQuestion = @ - 1]
                             ELSE HostOf
                       h == hostNextQuestion(h0, now)
                   IN HostStep(IF nextQuestionOk(state)
                               THEN [h EXCEPT !.pending =
                                       createThrottledBackup(@, "backup",
                                                             h.state.currentQuestionIndex)]
                               ELSE [h EXCEPT !.pending.stored = Null])
           /\ UNCHANGED toHost
        \/ pending.mounted /\ HostRevealAnswer
        \/ /\ pending.mounted
           /\ HostStep([hostEndGame(HostOf) EXCEPT !.pending.stored = Null])
           /\ UNCHANGED toHost
        \/ pending.mounted /\ HostRematch
        \/ /\ pending.mounted
           /\ \E p \in PlayerIds : HostHandle(createPlayerJoinMessage(p, NameOf(p)))
        \/ /\ pending.timeoutId
           /\ pending' = createThrottledBackup(pending, "timeout", 0)
           /\ UNCHANGED <<state, tracker, config, playerStates, hook, now, toHost, sent,
                          client, storage, call>>
        \/ /\ pending.mounted
           /\ pending' = [createThrottledBackup(pending, "cancel", 0)
                            EXCEPT !.mounted = FALSE]
           /\ UNCHANGED <<state, tracker, config, playerStates, hook, now, toHost, sent,
                          client, storage, call>>]_vars

\* C39: once the game has ended and endGame has cleared the room's backup,
\* localStorage holds no backup for the room while the game stays finished:
\* neither a throttled backup scheduled before the end nor cancel's final
\* flush writes one after the clear.
C39_NoBackupAfterEnd ==
  [][state.phase = "finished" /\ state'.phase = "finished" /\ pending.stored = Null
       => pending'.stored = Null]_vars

\* C40: a player's hasAnswered flag agrees with the host: whenever the round
\* is open, the tracker holds an accepted answer of a connected player and no
\* message is in flight, that player's hasAnswered is true and answerRejected
\* is false, also after a player:answer message that was delivered twice.
C40_HasAnsweredAgrees ==
  \A p \in Clients :
    ( /\ state.phase = "playing"
      /\ state.currentQuestion # Null
      /\ p \in DOMAIN tracker.answers
      /\ client[p].pc = "connected"
      /\ client[p].currentQuestion # Null
      /\ client[p].currentQuestion[1].id = state.currentQuestion[1].question.id
      /\ toHost = {} )
    => client[p].hasAnswered /\ ~client[p].answerRejected

====
